---------------------------- MODULE Spec2Model ----------------------------
(***************************************************************************)
(* A model of the inline kanban plugin: the text parser (kanban-core.ts),  *)
(* the drag payload validator (drag-payload.ts), and the mutation, merge   *)
(* and write-back code of main.ts.                                         *)
(*                                                                         *)
(* A JavaScript string is a sequence of one-character strings.  The value  *)
(* `undefined` of an optional field is the empty sequence: wipLimit is     *)
(* <<>> or <<n>>, color is <<>> or the colour string.                      *)
(*                                                                         *)
(* A local of the source that is read several times is the parameter of a  *)
(* local operator, applied once to the expression the source assigns to    *)
(* it; an action binds the result of a call with \E r \in {call}.          *)
(***************************************************************************)
EXTENDS Integers, Sequences, FiniteSets, TLC

VARIABLES
  board,      \* move spec: the KanbanBoard being mutated (a sequence of columns)
  lastOp,     \* move spec: the last mutation call, its arguments and the board before it
  heap,       \* handler spec: the objects the renderer holds, by address
  raw,        \* payload spec: the raw drag-transfer string (a sequence of JSON tokens)
  cardResult, \* payload spec: what parseCardDragPayload(raw) returned
  colResult,  \* payload spec: what parseColumnDragPayload(raw) returned
  source,     \* parse spec: the text handed to parseKanbanSource
  ppc,        \* parse spec: position in parse -> serialize -> parse
  parsed,     \* parse spec: parseKanbanSource(source)
  serialized, \* parse spec: the text written from the board (serialized or merged)
  reparsed,   \* parse spec: parseKanbanSource(serialized)
  scan,       \* scan spec: the line loop of parseKanbanSource, line by line
  doc,        \* edit spec: the document in the vault
  section,    \* edit spec: ctx.getSectionInfo(el): [lineStart, lineEnd]
  epc,        \* edit spec: position in render -> edit -> updateBlockSource
  rendered,   \* edit spec: the board parsed from the block when it was rendered
  edited,     \* edit spec: the edited clone handed to updateBoard
  blockLines, \* edit spec: the block lines updateBlockSource cut out of the document
  newLines,   \* edit spec: the lines mergeKanbanBlockLines returned
  written,    \* edit spec: the document after updateBlockSource
  chain,      \* queue spec: per updater, the links of its promise chain
  file,       \* queue spec: the vault file, one value per kanban block
  notices     \* queue spec: number of "update failed" notices shown

moveVars    == <<board, lastOp, heap>>
payloadVars == <<raw, cardResult, colResult>>
parseVars   == <<source, ppc, parsed, serialized, reparsed, scan>>
editVars    == <<doc, section, epc, rendered, edited, blockLines, newLines, written>>
queueVars   == <<chain, file, notices>>
vars        == <<moveVars, payloadVars, parseVars, editVars, queueVars>>

---------------------------------------------------------------------------
(* Strings                                                                 *)

Min(S) == CHOOSE x \in S : \A y \in S : x <= y
Max(S) == CHOOSE x \in S : \A y \in S : x >= y

\* the characters JavaScript's \s and String.prototype.trim treat as white space
IsSpace(c) == c \in {" ", "\t", "\r", "\n"}

IsDigit(c) == c \in {"0", "1", "2", "3", "4", "5", "6", "7", "8", "9"}

IsHexDigit(c) ==
  IsDigit(c) \/ c \in {"a", "b", "c", "d", "e", "f", "A", "B", "C", "D", "E", "F"}

\* String.prototype.toLowerCase, on the letters A to Z
LowerChar(c) ==
  LET upper == <<"A", "B", "C", "D", "E", "F", "G", "H", "I", "J", "K", "L", "M",
                 "N", "O", "P", "Q", "R", "S", "T", "U", "V", "W", "X", "Y", "Z">>
      lower == <<"a", "b", "c", "d", "e", "f", "g", "h", "i", "j", "k", "l", "m",
                 "n", "o", "p", "q", "r", "s", "t", "u", "v", "w", "x", "y", "z">>
      At(hits) == IF hits = {} THEN c ELSE lower[CHOOSE i \in hits : TRUE]
  IN  At({i \in 1..26 : upper[i] = c})

RECURSIVE ToLowerCase(_)
ToLowerCase(s) ==
  IF s = <<>> THEN <<>> ELSE <<LowerChar(Head(s))>> \o ToLowerCase(Tail(s))

NonSpace(s) == {i \in 1..Len(s) : ~IsSpace(s[i])}

\* String.prototype.trim
Trim(s) ==
  IF NonSpace(s) = {} THEN <<>> ELSE SubSeq(s, Min(NonSpace(s)), Max(NonSpace(s)))

\* s.replace(/^\s+/, "")
TrimStart(s) ==
  IF NonSpace(s) = {} THEN <<>> ELSE SubSeq(s, Min(NonSpace(s)), Len(s))

\* the leading white space of s: /^\s*/.exec(s)[0]
LeadingSpace(s) ==
  IF NonSpace(s) = {} THEN s ELSE SubSeq(s, 1, Min(NonSpace(s)) - 1)

StartsWith(s, p) == Len(s) >= Len(p) /\ SubSeq(s, 1, Len(p)) = p

\* String.prototype.split(sep) for a one-character separator
RECURSIVE SplitChar(_, _)
SplitChar(s, sep) ==
  LET hits == {i \in 1..Len(s) : s[i] = sep}
  IN  IF hits = {} THEN <<s>>
      ELSE <<SubSeq(s, 1, Min(hits) - 1)>>
             \o SplitChar(SubSeq(s, Min(hits) + 1, Len(s)), sep)

\* a line as split(/\r?\n/) cuts it: a "\r" right before the "\n" belongs to the separator
DropCR(s) ==
  IF s # <<>> /\ s[Len(s)] = "\r" THEN SubSeq(s, 1, Len(s) - 1) ELSE s

\* String.prototype.split(/\r?\n/)
SplitLines(s) ==
  LET parts == SplitChar(s, "\n")
  IN  [i \in 1..Len(parts) |-> IF i < Len(parts) THEN DropCR(parts[i]) ELSE parts[i]]

\* Array.prototype.join("\n")
RECURSIVE JoinLines(_)
JoinLines(lines) ==
  IF lines = <<>> THEN <<>>
  ELSE IF Len(lines) = 1 THEN lines[1]
  ELSE lines[1] \o <<"\n">> \o JoinLines(Tail(lines))

\* Array.prototype.filter(Boolean) on an array of strings
RECURSIVE FilterNonEmpty(_)
FilterNonEmpty(ss) ==
  IF ss = <<>> THEN <<>>
  ELSE (IF Head(ss) = <<>> THEN <<>> ELSE <<Head(ss)>>) \o FilterNonEmpty(Tail(ss))

TrimAll(ss) == [i \in 1..Len(ss) |-> Trim(ss[i])]

\* Array.prototype.flat / the spread of a list of arrays
RECURSIVE Flatten(_)
Flatten(ss) == IF ss = <<>> THEN <<>> ELSE Head(ss) \o Flatten(Tail(ss))

\* " ".repeat(n)
Spaces(n) == [i \in 1..n |-> " "]

\* Number(digits) for a string of decimal digits
DigitValue(c) ==
  CASE c = "0" -> 0 [] c = "1" -> 1 [] c = "2" -> 2 [] c = "3" -> 3 [] c = "4" -> 4
    [] c = "5" -> 5 [] c = "6" -> 6 [] c = "7" -> 7 [] c = "8" -> 8 [] c = "9" -> 9

RECURSIVE ToNumber(_)
ToNumber(ds) ==
  IF ds = <<>> THEN 0 ELSE 10 * ToNumber(SubSeq(ds, 1, Len(ds) - 1)) + DigitValue(ds[Len(ds)])

\* `${n}` for a non-negative integer
DigitChar(d) == <<"0", "1", "2", "3", "4", "5", "6", "7", "8", "9">>[d + 1]

RECURSIVE NumberToString(_)
NumberToString(n) ==
  IF n < 10 THEN <<DigitChar(n)>> ELSE NumberToString(n \div 10) \o <<DigitChar(n % 10)>>

---------------------------------------------------------------------------
(* kanban-core.ts                                                          *)

DEFAULT_COLUMN ==
  <<"U", "n", "c", "a", "t", "e", "g", "o", "r", "i", "z", "e", "d">>

\* the header words, lower case
ColumnsWord == <<"c", "o", "l", "u", "m", "n", "s", ":">>
ItemsWord   == <<"i", "t", "e", "m", "s", ":">>

\* normalizeKey
normalizeKey(value) == ToLowerCase(Trim(value))

\* normalizeHexColor: /^#[0-9a-f]{3}([0-9a-f]{3})?([0-9a-f]{2})?$/ on the lower-cased
\* value, "#" and 3, 5, 6 or 8 hex digits; <<>> is undefined
normalizeHexColor(value) ==
  LET Test(normalized) ==
        IF /\ Len(normalized) \in {4, 6, 7, 9}
           /\ normalized[1] = "#"
           /\ \A i \in 2..Len(normalized) : IsHexDigit(normalized[i])
        THEN normalized
        ELSE <<>>
  IN  IF value = <<>> THEN <<>> ELSE Test(ToLowerCase(Trim(value)))

\* where /^(.*?)(?:\s*\{(#[0-9a-fA-F]{3,8})\})\s*$/ finds the "{" in a trimmed
\* string, or 0: the string ends with "{#" + 3..8 hex digits + "}"
ColorTokenStart(s) ==
  LET opens == {q \in 1..Len(s) :
                  /\ s[q] = "{"
                  /\ Len(s) - q \in 5..10
                  /\ s[q + 1] = "#"
                  /\ s[Len(s)] = "}"
                  /\ \A i \in (q + 2)..(Len(s) - 1) : IsHexDigit(s[i])}
  IN  IF opens = {} THEN 0 ELSE Min(opens)

\* where /^(.*?)(?:\s*\((\d+)\))\s*$/ finds the "(" in a trimmed string, or 0
LimitTokenStart(s) ==
  LET opens == {q \in 1..Len(s) :
                  /\ s[q] = "("
                  /\ Len(s) - q >= 2
                  /\ s[Len(s)] = ")"
                  /\ \A i \in (q + 1)..(Len(s) - 1) : IsDigit(s[i])}
  IN  IF opens = {} THEN 0 ELSE Min(opens)

\* a || b on strings
OrElse(a, b) == IF a # <<>> THEN a ELSE b

\* where /^\[(.+?)\]\s*(.*)$/ finds the "]" in a trimmed entry, or 0: the first "]"
\* after "[" and at least one character
BracketEnd(text) ==
  LET closes == {j \in 3..Len(text) : text[j] = "]"}
  IN  IF text # <<>> /\ text[1] = "[" /\ closes # {} THEN Min(closes) ELSE 0

\* where /^([^:]+):\s*(.*)$/ finds the ":" in a trimmed entry, or 0: the first ":",
\* not at the start
ColonEnd(text) ==
  LET colons == {j \in 1..Len(text) : text[j] = ":"}
  IN  IF colons # {} /\ Min(colons) >= 2 THEN Min(colons) ELSE 0

\* parseColumnDefinition
parseColumnDefinition(rawName) ==
  LET Definition(trimmed, working, color, lq) ==
        IF lq = 0
        THEN [rawName |-> trimmed, baseName |-> OrElse(working, trimmed),
              wipLimit |-> <<>>, color |-> color]
        ELSE [rawName |-> trimmed,
              baseName |-> OrElse(Trim(SubSeq(working, 1, lq - 1)),
                                  OrElse(working, trimmed)),
              wipLimit |-> <<ToNumber(SubSeq(working, lq + 1, Len(working) - 1))>>,
              color |-> color]
      LimitMatch(trimmed, working, color) ==
        Definition(trimmed, working, color, LimitTokenStart(working))
      ColorMatch(trimmed, cq) ==
        IF cq = 0 THEN LimitMatch(trimmed, trimmed, <<>>)
        ELSE LimitMatch(trimmed, Trim(SubSeq(trimmed, 1, cq - 1)),
                        normalizeHexColor(SubSeq(trimmed, cq + 1, Len(trimmed) - 1)))
      Trimmed(trimmed) == ColorMatch(trimmed, ColorTokenStart(trimmed))
  IN  Trimmed(Trim(rawName))

\* normalizeColumnKey
normalizeColumnKey(value) ==
  LET Key(baseName) == normalizeKey(OrElse(baseName, value))
  IN  Key(parseColumnDefinition(value).baseName)

\* createColumnFromDefinition
createColumnFromDefinition(definition) ==
  LET name == OrElse(definition.baseName, definition.rawName)
  IN  [name |-> name, rawName |-> definition.rawName, statusName |-> name,
       items |-> <<>>, wipLimit |-> definition.wipLimit, color |-> definition.color]

\* parseItemEntry
parseItemEntry(rawEntry) ==
  LET Entry(text, status, rest) ==
        [status |-> OrElse(status, DEFAULT_COLUMN), text |-> OrElse(rest, text)]
      \* the status lies in from..(cut - 1), the text after cut; no match when cut = 0
      Match(text, from, cut) ==
        IF cut = 0 THEN Entry(text, <<>>, text)
        ELSE Entry(text, Trim(SubSeq(text, from, cut - 1)),
                   Trim(SubSeq(text, cut + 1, Len(text))))
      Brackets(text, close) ==
        IF close # 0 THEN Match(text, 2, close) ELSE Match(text, 1, ColonEnd(text))
      Trimmed(text) == Brackets(text, BracketEnd(text))
  IN  Trimmed(Trim(rawEntry))

\* splitCommaList
splitCommaList(s) == FilterNonEmpty(TrimAll(SplitChar(s, ",")))


\* the keys a plain object literal inherits from Object.prototype: columnMap is
\* `{}`, so columnMap[key] finds a truthy built-in for them although no column
\* was stored ("__proto__" is inherited too; the texts drawn here use "constructor")
InheritedKeys ==
  {<<"c", "o", "n", "s", "t", "r", "u", "c", "t", "o", "r">>}

\* the index of key in columnOrder, 0 when columnMap has no own entry for it
OwnIndex(order, key) ==
  LET hits == {i \in 1..Len(order) : order[i] = key}
  IN  IF hits = {} THEN 0 ELSE Min(hits)

\* columnMap[key] is truthy: an own column or an inherited built-in
ColumnMapHas(order, key) == OwnIndex(order, key) # 0 \/ key \in InheritedKeys

\* ensureColumn without the lookup of the key in columnMap: every definition
\* becomes a column of its own
ensureColumnNoLookup(st, definition) ==
  [st EXCEPT !.order = Append(@, normalizeColumnKey(definition.rawName)),
             !.cols = Append(@, createColumnFromDefinition(definition)),
             !.rawMatches = Append(@, 0),
             !.baseMatches = Append(@, 0)]

\* ensureColumn, on the resolver state [order, cols, rawMatches, baseMatches]
ensureColumn(st, definition) ==
  LET Existing(i, existing) ==
        [st EXCEPT !.cols[i] =
           [existing EXCEPT
              !.wipLimit = IF existing.wipLimit = <<>> /\ definition.wipLimit # <<>>
                           THEN definition.wipLimit ELSE @,
              !.color    = IF existing.color = <<>> /\ definition.color # <<>>
                           THEN definition.color ELSE @]]
      Lookup(key, i) ==
        IF i # 0 THEN Existing(i, st.cols[i])
        ELSE IF key \in InheritedKeys THEN st
        ELSE [st EXCEPT !.order = Append(@, key),
                        !.cols = Append(@, createColumnFromDefinition(definition)),
                        !.rawMatches = Append(@, 0),
                        !.baseMatches = Append(@, 0)]
      Key(key) == Lookup(key, OwnIndex(st.order, key))
  IN  Key(normalizeColumnKey(definition.rawName))

RECURSIVE EnsureAll(_, _)
EnsureAll(st, definitions) ==
  IF definitions = <<>> THEN st
  ELSE EnsureAll(ensureColumn(st, Head(definitions)), Tail(definitions))

\* the definitions of the item statuses (column inference, kanban-core.ts 112-116)
StatusDefinitions(items) ==
  [i \in 1..Len(items) |-> parseColumnDefinition(items[i].status)]

\* one round of the item loop (kanban-core.ts 122-144); st.threw is set when
\* column.items.push raises a TypeError: the column found is an inherited built-in
AssignItem(st, item) ==
  LET Usage(st1, i, column, trimmedStatus, statusKey) ==
        [st1 EXCEPT !.cols[i].items = Append(@, item.text),
                    !.rawMatches[i] =
                      IF trimmedStatus # <<>> /\ statusKey = normalizeKey(column.rawName)
                      THEN @ + 1 ELSE @,
                    !.baseMatches[i] =
                      IF trimmedStatus # <<>> /\ statusKey = normalizeKey(column.name)
                      THEN @ + 1 ELSE @]
      Push(st1, i, trimmedStatus) ==
        IF i = 0 THEN [st1 EXCEPT !.threw = TRUE]
        ELSE Usage(st1, i, st1.cols[i], trimmedStatus, normalizeKey(trimmedStatus))
      Column(statusName, key, st1) == Push(st1, OwnIndex(st1.order, key), Trim(statusName))
      Key(statusName, key) ==
        Column(statusName, key,
               IF ColumnMapHas(st.order, key) THEN st
               ELSE ensureColumn(st, parseColumnDefinition(statusName)))
      Status(statusName) == Key(statusName, normalizeColumnKey(statusName))
  IN  IF st.threw THEN st ELSE Status(OrElse(item.status, DEFAULT_COLUMN))

RECURSIVE AssignAll(_, _)
AssignAll(st, items) ==
  IF items = <<>> THEN st ELSE AssignAll(AssignItem(st, Head(items)), Tail(items))

\* the status-name heuristic without the test rawMatches > 0: a column that no
\* item names gets its rawName
ChooseStatusNameNoRawTest(column, rawMatches, baseMatches) ==
  IF baseMatches = 0
  THEN [column EXCEPT !.statusName = column.rawName]
  ELSE [column EXCEPT !.statusName = column.name]

\* the status-name heuristic (kanban-core.ts 146-154)
ChooseStatusName(column, rawMatches, baseMatches) ==
  IF rawMatches > 0 /\ baseMatches = 0
  THEN [column EXCEPT !.statusName = column.rawName]
  ELSE [column EXCEPT !.statusName = column.name]

\* the line loop with the continuation test moved before the header and list
\* rules: an indented header or list entry is taken for more text of the last item
ScanLineContinuationFirst(st, rawLine) ==
  LET Definitions(entries) ==
        [i \in 1..Len(entries) |-> parseColumnDefinition(entries[i])]
      ListEntry(entry) ==
        IF st.section = "columns"
        THEN (IF entry = <<>> THEN st
              ELSE [st EXCEPT !.defs = Append(@, parseColumnDefinition(entry))])
        ELSE [st EXCEPT !.items = Append(@, parseItemEntry(entry))]
      Line(line, low, n) ==
        IF line = <<>> THEN st
        ELSE IF st.section = "items" /\ n > 0 /\ IsSpace(rawLine[1])
          THEN [st EXCEPT !.items[n].text = @ \o <<"\n">> \o line]
        ELSE IF StartsWith(low, ColumnsWord) /\ Len(line) > 8
          THEN [st EXCEPT !.section = "columns",
                          !.defs = @ \o Definitions(splitCommaList(
                                          TrimStart(SubSeq(line, 9, Len(line)))))]
        ELSE IF low = ColumnsWord THEN [st EXCEPT !.section = "columns"]
        ELSE IF low = ItemsWord THEN [st EXCEPT !.section = "items"]
        ELSE IF /\ Len(line) >= 3 /\ line[1] \in {"-", "*"} /\ IsSpace(line[2])
                /\ st.section \in {"columns", "items"}
          THEN ListEntry(Trim(SubSeq(line, 2, Len(line))))
        ELSE st
      Trimmed(line) == Line(line, ToLowerCase(line), Len(st.items))
  IN  Trimmed(Trim(rawLine))

\* the line loop starting in the items section: a list entry before any header
\* is recorded as an item
ScanLineItemsByDefault(st, rawLine) ==
  LET Definitions(entries) ==
        [i \in 1..Len(entries) |-> parseColumnDefinition(entries[i])]
      ListEntry(entry) ==
        IF st.section = "columns"
        THEN (IF entry = <<>> THEN st
              ELSE [st EXCEPT !.defs = Append(@, parseColumnDefinition(entry))])
        ELSE [st EXCEPT !.items = Append(@, parseItemEntry(entry))]
      Line(line, low, n) ==
        IF line = <<>> THEN st
        ELSE IF StartsWith(low, ColumnsWord) /\ Len(line) > 8
          THEN [st EXCEPT !.section = "columns",
                          !.defs = @ \o Definitions(splitCommaList(
                                          TrimStart(SubSeq(line, 9, Len(line)))))]
        ELSE IF low = ColumnsWord THEN [st EXCEPT !.section = "columns"]
        ELSE IF low = ItemsWord THEN [st EXCEPT !.section = "items"]
        ELSE IF Len(line) >= 3 /\ line[1] \in {"-", "*"} /\ IsSpace(line[2])
          THEN ListEntry(Trim(SubSeq(line, 2, Len(line))))
        ELSE IF st.section = "items" /\ n > 0 /\ IsSpace(rawLine[1])
          THEN [st EXCEPT !.items[n].text = @ \o <<"\n">> \o line]
        ELSE st
      Trimmed(line) == Line(line, ToLowerCase(line), Len(st.items))
  IN  Trimmed(Trim(rawLine))

\* one round of the line loop (kanban-core.ts 34-79) on [section, defs, items]
ScanLine(st, rawLine) ==
  LET Definitions(entries) ==
        [i \in 1..Len(entries) |-> parseColumnDefinition(entries[i])]
      ListEntry(entry) ==
        IF st.section = "columns"
        THEN (IF entry = <<>> THEN st
              ELSE [st EXCEPT !.defs = Append(@, parseColumnDefinition(entry))])
        ELSE [st EXCEPT !.items = Append(@, parseItemEntry(entry))]
      Line(line, low, n) ==
        IF line = <<>> THEN st
        ELSE IF StartsWith(low, ColumnsWord) /\ Len(line) > 8
          THEN [st EXCEPT !.section = "columns",
                          !.defs = @ \o Definitions(splitCommaList(
                                          TrimStart(SubSeq(line, 9, Len(line)))))]
        ELSE IF low = ColumnsWord THEN [st EXCEPT !.section = "columns"]
        ELSE IF low = ItemsWord THEN [st EXCEPT !.section = "items"]
        ELSE IF /\ Len(line) >= 3 /\ line[1] \in {"-", "*"} /\ IsSpace(line[2])
                /\ st.section \in {"columns", "items"}
          THEN ListEntry(Trim(SubSeq(line, 2, Len(line))))
        ELSE IF st.section = "items" /\ n > 0 /\ IsSpace(rawLine[1])
          THEN [st EXCEPT !.items[n].text = @ \o <<"\n">> \o line]
        ELSE st
      Trimmed(line) == Line(line, ToLowerCase(line), Len(st.items))
  IN  Trimmed(Trim(rawLine))

RECURSIVE ScanLines(_, _)
ScanLines(st, lines) ==
  IF lines = <<>> THEN st ELSE ScanLines(ScanLine(st, Head(lines)), Tail(lines))

\* parseKanbanSource: [threw, columns]; threw is TRUE when the call raises
parseKanbanSource(src) ==
  LET st0 == [order |-> <<>>, cols |-> <<>>, rawMatches |-> <<>>,
              baseMatches |-> <<>>, threw |-> FALSE]
      Board(st4) ==
        IF st4.threw THEN [threw |-> TRUE, columns |-> <<>>]
        ELSE [threw |-> FALSE,
              columns |-> [i \in 1..Len(st4.cols) |->
                             ChooseStatusName(st4.cols[i], st4.rawMatches[i],
                                              st4.baseMatches[i])]]
      Fallback(st2) ==
        IF st2.order = <<>> THEN ensureColumn(st2, parseColumnDefinition(DEFAULT_COLUMN))
        ELSE st2
      Inferred(st1, items) ==
        IF st1.order = <<>> THEN EnsureAll(st1, StatusDefinitions(items)) ELSE st1
      Scanned(scanned) ==
        Board(AssignAll(Fallback(Inferred(EnsureAll(st0, scanned.defs), scanned.items)),
                        scanned.items))
  IN  Scanned(ScanLines([section |-> "none", defs |-> <<>>, items |-> <<>>],
                        SplitLines(src)))

---------------------------------------------------------------------------
(* main.ts: the mutation operations.  Indices are JavaScript's, from 0.    *)

\* where Array.prototype.splice(start, ...) starts on an array of length len:
\* a negative start counts from the end, and the result is clamped into [0, len]
SpliceStart(len, start) ==
  IF start < 0 THEN (IF len + start < 0 THEN 0 ELSE len + start)
  ELSE IF start > len THEN len ELSE start

\* the elements arr.splice(start, 1) removes: one, or none when start is past the end
SpliceRemoved(arr, start) ==
  LET k == SpliceStart(Len(arr), start)
  IN  IF k < Len(arr) THEN <<arr[k + 1]>> ELSE <<>>

\* arr after arr.splice(start, 1)
SpliceDelete(arr, start) ==
  LET k == SpliceStart(Len(arr), start)
  IN  IF k < Len(arr) THEN SubSeq(arr, 1, k) \o SubSeq(arr, k + 2, Len(arr)) ELSE arr

\* arr after arr.splice(start, 0, x)
SpliceInsert(arr, start, x) ==
  LET k == SpliceStart(Len(arr), start)
  IN  SubSeq(arr, 1, k) \o <<x>> \o SubSeq(arr, k + 1, Len(arr))

\* board.columns[i] is an element (not undefined)
HasColumn(columns, i) == i >= 0 /\ i < Len(columns)

\* cloneBoard: a fresh copy of every column and of its items array
cloneBoard(columns) ==
  [i \in 1..Len(columns) |->
     [name |-> columns[i].name, rawName |-> columns[i].rawName,
      statusName |-> columns[i].statusName, wipLimit |-> columns[i].wipLimit,
      color |-> columns[i].color, items |-> columns[i].items]]

\* moveCard with the target column looked up only after the card was taken out
\* of its column: a drop on a missing column loses the card
moveCardLateTargetCheck(columns, fromColumnIndex, fromItemIndex, toColumnIndex, toItemIndex) ==
  IF ~HasColumn(columns, fromColumnIndex) THEN columns
  ELSE
    LET removed  == SpliceRemoved(columns[fromColumnIndex + 1].items, fromItemIndex)
        afterCut == [columns EXCEPT ![fromColumnIndex + 1].items =
                       SpliceDelete(@, fromItemIndex)]
        shifted  == IF fromColumnIndex = toColumnIndex /\ fromItemIndex < toItemIndex
                    THEN toItemIndex - 1 ELSE toItemIndex
        targetLen == Len(afterCut[toColumnIndex + 1].items)
        insertIndex == IF shifted < 0 THEN 0
                       ELSE IF shifted > targetLen THEN targetLen ELSE shifted
    IN  IF removed = <<>> THEN columns
        ELSE IF ~HasColumn(columns, toColumnIndex) THEN afterCut
        ELSE [afterCut EXCEPT ![toColumnIndex + 1].items =
                SpliceInsert(@, insertIndex, removed[1])]

\* moveCard without the step back for a move down its own column: the card
\* lands one place too far
moveCardNoShift(columns, fromColumnIndex, fromItemIndex, toColumnIndex, toItemIndex) ==
  IF ~HasColumn(columns, fromColumnIndex) \/ ~HasColumn(columns, toColumnIndex)
  THEN columns
  ELSE
    LET removed  == SpliceRemoved(columns[fromColumnIndex + 1].items, fromItemIndex)
        afterCut == [columns EXCEPT ![fromColumnIndex + 1].items =
                       SpliceDelete(@, fromItemIndex)]
        targetLen == Len(afterCut[toColumnIndex + 1].items)
        insertIndex == IF toItemIndex < 0 THEN 0
                       ELSE IF toItemIndex > targetLen THEN targetLen ELSE toItemIndex
    IN  IF removed = <<>> THEN columns
        ELSE [afterCut EXCEPT ![toColumnIndex + 1].items =
                SpliceInsert(@, insertIndex, removed[1])]

\* moveCard: the columns after moveCard(board, fromColumnIndex, fromItemIndex,
\* toColumnIndex, toItemIndex)
moveCard(columns, fromColumnIndex, fromItemIndex, toColumnIndex, toItemIndex) ==
  IF ~HasColumn(columns, fromColumnIndex) \/ ~HasColumn(columns, toColumnIndex)
  THEN columns
  ELSE
    LET removed  == SpliceRemoved(columns[fromColumnIndex + 1].items, fromItemIndex)
        afterCut == [columns EXCEPT ![fromColumnIndex + 1].items =
                       SpliceDelete(@, fromItemIndex)]
        shifted  == IF fromColumnIndex = toColumnIndex /\ fromItemIndex < toItemIndex
                    THEN toItemIndex - 1 ELSE toItemIndex
        targetLen == Len(afterCut[toColumnIndex + 1].items)
        insertIndex == IF shifted < 0 THEN 0
                       ELSE IF shifted > targetLen THEN targetLen ELSE shifted
    IN  IF removed = <<>> THEN columns
        ELSE [afterCut EXCEPT ![toColumnIndex + 1].items =
                SpliceInsert(@, insertIndex, removed[1])]

\* moveColumn inserting the column before it removes it at fromIndex: a move to
\* the left removes the neighbour and leaves the moved column twice
moveColumnInsertFirst(columns, fromIndex, toIndex) ==
  IF fromIndex < 0 \/ fromIndex >= Len(columns) THEN columns
  ELSE
    LET clamped  == IF toIndex < 0 THEN 0
                    ELSE IF toIndex > Len(columns) THEN Len(columns) ELSE toIndex
        inserted == SpliceInsert(columns, clamped, columns[fromIndex + 1])
    IN  SpliceDelete(inserted, fromIndex)

\* moveColumn without the step back for a move to the right: the column lands
\* one place too far
moveColumnNoShift(columns, fromIndex, toIndex) ==
  IF fromIndex < 0 \/ fromIndex >= Len(columns) THEN columns
  ELSE
    LET clamped  == IF toIndex < 0 THEN 0
                    ELSE IF toIndex > Len(columns) THEN Len(columns) ELSE toIndex
        moved    == columns[fromIndex + 1]
        afterCut == SpliceDelete(columns, fromIndex)
        insertIndex == IF clamped > Len(afterCut) THEN Len(afterCut) ELSE clamped
    IN  SpliceInsert(afterCut, insertIndex, moved)

\* moveColumn: the columns after moveColumn(board, fromIndex, toIndex)
moveColumn(columns, fromIndex, toIndex) ==
  IF fromIndex < 0 \/ fromIndex >= Len(columns) THEN columns
  ELSE
    LET clamped  == IF toIndex < 0 THEN 0
                    ELSE IF toIndex > Len(columns) THEN Len(columns) ELSE toIndex
        moved    == columns[fromIndex + 1]
        afterCut == SpliceDelete(columns, fromIndex)
        shifted  == IF fromIndex < clamped THEN clamped - 1 ELSE clamped
        insertIndex == IF shifted < 0 THEN 0
                       ELSE IF shifted > Len(afterCut) THEN Len(afterCut) ELSE shifted
    IN  SpliceInsert(afterCut, insertIndex, moved)

---------------------------------------------------------------------------
(* The mutation operations on a board, called any number of times.         *)

\* most items on a board of the mutation specifications
MaxItems == 2

Idle == "idle"

Todo  == <<"T", "o", "d", "o">>
Doing == <<"D", "o", "i", "n", "g">>
Done  == <<"D", "o", "n", "e">>

\* the columns of the boards: Todo, Doing (2) and Done {#0f0}, as the parser builds them
BoardColumns ==
  << [name |-> Todo, rawName |-> Todo, statusName |-> Todo,
      wipLimit |-> <<>>, color |-> <<>>, items |-> <<>>],
     [name |-> Doing, rawName |-> Doing \o <<" ", "(", "2", ")">>, statusName |-> Doing,
      wipLimit |-> <<2>>, color |-> <<>>, items |-> <<>>],
     [name |-> Done, rawName |-> Done \o <<" ", "{", "#", "0", "f", "0", "}">>,
      statusName |-> Done, wipLimit |-> <<>>, color |-> <<"#", "0", "f", "0">>,
      items |-> <<>>] >>

ItemTexts == {<<"x">>, <<"y">>}

ItemSeqs == UNION {[1..n -> ItemTexts] : n \in 0..MaxItems}

\* the boards a mutation starts from: at most MaxItems items over the columns
MoveBoards ==
  {[i \in 1..Len(BoardColumns) |-> [BoardColumns[i] EXCEPT !.items = d[i]]] :
     d \in {e \in [1..Len(BoardColumns) -> ItemSeqs] :
              Len(e[1]) + Len(e[2]) + Len(e[3]) <= MaxItems}}

\* the index arguments tried: in range, past the end, negative
ColumnArgs == -1..Len(BoardColumns)
ItemArgs   == -2..MaxItems

\* every index designates what the caller means: an item to take, a place to put it
CardArgsInRange(columns, fc, fi, tc, ti) ==
  /\ HasColumn(columns, fc) /\ HasColumn(columns, tc)
  /\ fi >= 0 /\ fi < Len(columns[fc + 1].items)
  /\ ti >= 0 /\ ti <= Len(columns[tc + 1].items)

IdleMove    == board = <<>> /\ lastOp = Idle /\ heap = Idle
IdlePayload == raw = <<>> /\ cardResult = Idle /\ colResult = Idle
IdleParse   == source = <<>> /\ ppc = Idle /\ parsed = Idle
                 /\ serialized = Idle /\ reparsed = Idle /\ scan = Idle
IdleEdit    == doc = <<>> /\ section = Idle /\ epc = Idle /\ rendered = Idle
                 /\ edited = Idle /\ blockLines = Idle /\ newLines = Idle
                 /\ written = Idle
IdleQueue   == chain = <<>> /\ file = Idle /\ notices = 0

\* lastOp.start is the board before the first call
InitMove ==
  /\ board \in MoveBoards
  /\ lastOp = [op |-> "none", inRange |-> TRUE, start |-> board]
  /\ heap = Idle
  /\ IdlePayload /\ IdleParse /\ IdleEdit /\ IdleQueue

\* the drop handlers call moveCard(nextBoard, ...) on a clone of the board
MoveCard(fc, fi, tc, ti) ==
  /\ board' = moveCard(cloneBoard(board), fc, fi, tc, ti)
  /\ lastOp' = [lastOp EXCEPT !.op = "moveCard",
                              !.inRange = CardArgsInRange(board, fc, fi, tc, ti)]
  /\ UNCHANGED <<heap, payloadVars, parseVars, editVars, queueVars>>

\* handleColumnDrop calls moveColumn(nextBoard, ...) on a clone of the board
MoveColumn(from, to) ==
  /\ board' = moveColumn(cloneBoard(board), from, to)
  /\ lastOp' = [lastOp EXCEPT !.op = "moveColumn",
                              !.inRange = HasColumn(board, from) /\ HasColumn(board, to)]
  /\ UNCHANGED <<heap, payloadVars, parseVars, editVars, queueVars>>

NextMoveCard ==
  \E fc \in ColumnArgs, tc \in ColumnArgs, fi \in ItemArgs, ti \in ItemArgs :
    MoveCard(fc, fi, tc, ti)

\* toIndex is drawn past the number of columns as well
NextMoveColumn ==
  \E from \in ColumnArgs, to \in ColumnArgs \cup {Len(BoardColumns) + 1} :
    MoveColumn(from, to)

SpecMoveCard   == InitMove /\ [][NextMoveCard]_vars
SpecMoveColumn == InitMove /\ [][NextMoveColumn]_vars

\* moves inside one column only
NextMoveInColumn ==
  \E c \in ColumnArgs, fi \in ItemArgs, ti \in ItemArgs : MoveCard(c, fi, c, ti)

SpecMoveInColumn == InitMove /\ [][NextMoveInColumn]_vars

\* how many items of the board have the text t
ItemCount(columns, t) ==
  LET n(i) == Cardinality({k \in 1..Len(columns[i].items) : columns[i].items[k] = t})
  IN  n(1) + n(2) + n(3)

TotalItems(columns) ==
  Len(columns[1].items) + Len(columns[2].items) + Len(columns[3].items)

\* a column without its items
ColumnFields(c) ==
  [name |-> c.name, rawName |-> c.rawName, statusName |-> c.statusName,
   wipLimit |-> c.wipLimit, color |-> c.color]

\* C1: after any sequence of moveCard calls, whatever their integer arguments,
\* the board has as many items and the same multiset of item texts as the
\* initial board, as many columns, and every column has the name, rawName,
\* wipLimit and color it started with.
C1_MoveCardPreserves ==
  /\ TotalItems(board) = TotalItems(lastOp.start)
  /\ \A t \in ItemTexts : ItemCount(board, t) = ItemCount(lastOp.start, t)
  /\ Len(board) = Len(lastOp.start)
  /\ \A i \in 1..Len(board) : ColumnFields(board[i]) = ColumnFields(lastOp.start[i])

\* C1 witness: a call with an index out of range or negative was made and the
\* cards are no longer where they started
C1_Witness ==
  /\ lastOp.op = "moveCard" /\ ~lastOp.inRange
  /\ board # lastOp.start

\* how many columns of the board equal c
ColumnCount(columns, c) == Cardinality({i \in 1..Len(columns) : columns[i] = c})

\* C2: after any sequence of moveColumn calls, whatever their integer
\* arguments, the board has as many columns and the same multiset of columns,
\* each with its item sequence, as the initial board.
C2_MoveColumnPreserves ==
  /\ Len(board) = Len(lastOp.start)
  /\ \A i \in 1..Len(lastOp.start) :
       ColumnCount(board, lastOp.start[i]) = ColumnCount(lastOp.start, lastOp.start[i])

\* C2 witness: a call with an index out of range was made and the columns are
\* in another order than at the start
C2_Witness ==
  /\ lastOp.op = "moveColumn" /\ ~lastOp.inRange
  /\ board # lastOp.start

---------------------------------------------------------------------------
(* drag-payload.ts.  The raw string is a sequence of JSON tokens [t, s, n]: *)
(* a string token carries its text in s, a number token its value in n.    *)
(* A JavaScript number is held in tenths, so that 15 is 1.5 and 20 is 2.   *)

Tok(t)  == [t |-> t, s |-> "", n |-> 0]
TStr(s) == [t |-> "str", s |-> s, n |-> 0]
TNum(n) == [t |-> "num", s |-> "", n |-> n]

JsonValue(kind, num, fields) == [kind |-> kind, num |-> num, fields |-> fields]
NoFields == [k \in {} |-> 0]
JsonFail == [ok |-> FALSE, val |-> JsonValue("none", 0, NoFields), rest |-> <<>>]

\* JSON.parse's grammar over the tokens: [ok, val, rest] for the value the tokens
\* start with; an object keeps the last value of a repeated key
RECURSIVE JsonParseValue(_), JsonParseMembers(_, _), JsonParseElements(_)
JsonParseValue(toks) ==
  IF toks = <<>> THEN JsonFail
  ELSE
    LET h == Head(toks)
    IN  CASE h.t = "num"  -> [ok |-> TRUE, val |-> JsonValue("number", h.n, NoFields), rest |-> Tail(toks)]
          [] h.t = "str"  -> [ok |-> TRUE, val |-> JsonValue("string", 0, NoFields), rest |-> Tail(toks)]
          [] h.t = "null" -> [ok |-> TRUE, val |-> JsonValue("null", 0, NoFields), rest |-> Tail(toks)]
          [] h.t = "true" -> [ok |-> TRUE, val |-> JsonValue("boolean", 0, NoFields), rest |-> Tail(toks)]
          [] h.t = "{" ->
               IF Len(toks) >= 2 /\ toks[2].t = "}"
               THEN [ok |-> TRUE, val |-> JsonValue("object", 0, NoFields),
                     rest |-> SubSeq(toks, 3, Len(toks))]
               ELSE JsonParseMembers(Tail(toks), NoFields)
          [] h.t = "[" ->
               IF Len(toks) >= 2 /\ toks[2].t = "]"
               THEN [ok |-> TRUE, val |-> JsonValue("array", 0, NoFields),
                     rest |-> SubSeq(toks, 3, Len(toks))]
               ELSE JsonParseElements(Tail(toks))
          [] OTHER -> JsonFail

\* the members of an object after its "{" or a ",": "key" : value, then "," or "}"
JsonParseMembers(toks, fields) ==
  IF Len(toks) < 4 \/ toks[1].t # "str" \/ toks[2].t # ":" THEN JsonFail
  ELSE
    LET v == JsonParseValue(SubSeq(toks, 3, Len(toks)))
        key == toks[1].s
        next == [k \in DOMAIN fields \cup {key} |-> IF k = key THEN v.val ELSE fields[k]]
    IN  IF ~v.ok \/ v.rest = <<>> THEN JsonFail
        ELSE IF v.rest[1].t = "}"
          THEN [ok |-> TRUE, val |-> JsonValue("object", 0, next), rest |-> Tail(v.rest)]
        ELSE IF v.rest[1].t = "," THEN JsonParseMembers(Tail(v.rest), next)
        ELSE JsonFail

\* the elements of an array after its "[" or a ","
JsonParseElements(toks) ==
  LET v == JsonParseValue(toks)
  IN  IF ~v.ok \/ v.rest = <<>> THEN JsonFail
      ELSE IF v.rest[1].t = "]"
        THEN [ok |-> TRUE, val |-> JsonValue("array", 0, NoFields), rest |-> Tail(v.rest)]
      ELSE IF v.rest[1].t = "," THEN JsonParseElements(Tail(v.rest))
      ELSE JsonFail

\* JSON.parse(raw): ok is FALSE when it raises a SyntaxError
JsonParse(toks) ==
  LET v == JsonParseValue(toks)
  IN  IF v.ok /\ v.rest = <<>> THEN v ELSE JsonFail

\* typeof parsed[key] === "number"; reading a property of null raises a TypeError,
\* which the callers test before they get here
IsNumberField(val, key) ==
  val.kind = "object" /\ key \in DOMAIN val.fields /\ val.fields[key].kind = "number"

\* isNonNegativeInteger without the test value >= 0
isIntegerOnly(value) == value % 10 = 0

\* isNonNegativeInteger (drag-payload.ts): Number.isInteger(value) && value >= 0
isNonNegativeInteger(value) == value % 10 = 0 /\ value >= 0

NullResult == [st |-> "returned", isNull |-> TRUE]

\* parseCardDragPayload: the catch turns every exception of the try block into null
parseCardDragPayload(rawText) ==
  LET j == JsonParse(rawText)
      v == j.val
  IN  IF rawText = <<>> THEN NullResult
      ELSE IF ~j.ok THEN NullResult
      ELSE IF v.kind = "null" THEN NullResult
      ELSE IF ~IsNumberField(v, "columnIndex") THEN NullResult
      ELSE IF ~IsNumberField(v, "itemIndex") THEN NullResult
      ELSE IF ~isNonNegativeInteger(v.fields["columnIndex"].num) THEN NullResult
      ELSE IF ~isNonNegativeInteger(v.fields["itemIndex"].num) THEN NullResult
      ELSE [st |-> "returned", isNull |-> FALSE,
            payload |-> [columnIndex |-> v.fields["columnIndex"].num,
                         itemIndex |-> v.fields["itemIndex"].num]]

\* parseColumnDragPayload
parseColumnDragPayload(rawText) ==
  LET j == JsonParse(rawText)
      v == j.val
  IN  IF rawText = <<>> THEN NullResult
      ELSE IF ~j.ok THEN NullResult
      ELSE IF v.kind = "null" THEN NullResult
      ELSE IF ~IsNumberField(v, "columnIndex") THEN NullResult
      ELSE IF ~isNonNegativeInteger(v.fields["columnIndex"].num) THEN NullResult
      ELSE [st |-> "returned", isNull |-> FALSE,
            payload |-> [columnIndex |-> v.fields["columnIndex"].num]]

\* most members of an object drawn as a raw payload
MaxMembers == 2

PayloadKeys == {"columnIndex", "itemIndex", "id"}

\* member values: -1, 0, 1.5, 2, "1", null
PayloadValues == {TNum(-10), TNum(0), TNum(15), TNum(20), TStr("1"), Tok("null")}

PayloadMembers == {<<TStr(k), Tok(":"), v>> : k \in PayloadKeys, v \in PayloadValues}

RECURSIVE JoinMembers(_)
JoinMembers(ms) ==
  IF ms = <<>> THEN <<>>
  ELSE IF Len(ms) = 1 THEN ms[1]
  ELSE ms[1] \o <<Tok(",")>> \o JoinMembers(Tail(ms))

MemberSeqs == UNION {[1..n -> PayloadMembers] : n \in 0..MaxMembers}

\* the raw strings: "", objects, objects cut short (no JSON), arrays, primitives,
\* text that is no JSON
RawPayloads ==
  {<<>>, <<Tok("bad")>>, <<Tok("null")>>, <<TNum(10)>>, <<TStr("columnIndex")>>,
   <<Tok("true")>>, <<Tok("["), TNum(0), Tok(","), TNum(0), Tok("]")>>, <<Tok("["), Tok("]")>>}
  \cup {<<Tok("{")>> \o JoinMembers(ms) \o <<Tok("}")>> : ms \in MemberSeqs}
  \cup {<<Tok("{")>> \o JoinMembers(ms) : ms \in MemberSeqs}
  \cup {<<Tok("{")>> \o JoinMembers(ms) \o <<Tok("}"), Tok("}")>> : ms \in MemberSeqs}

InitPayload ==
  /\ raw \in RawPayloads
  /\ cardResult = [st |-> "idle"]
  /\ colResult = [st |-> "idle"]
  /\ IdleMove /\ IdleParse /\ IdleEdit /\ IdleQueue

\* a card drop: parseCardDragPayload(event.dataTransfer.getData(...))
ParseCardPayload ==
  /\ cardResult.st = "idle"
  /\ cardResult' = parseCardDragPayload(raw)
  /\ UNCHANGED <<raw, colResult, moveVars, parseVars, editVars, queueVars>>

\* a column drop: parseColumnDragPayload(event.dataTransfer.getData(...))
ParseColumnPayload ==
  /\ colResult.st = "idle"
  /\ colResult' = parseColumnDragPayload(raw)
  /\ UNCHANGED <<raw, cardResult, moveVars, parseVars, editVars, queueVars>>

NextPayload == ParseCardPayload \/ ParseColumnPayload

SpecPayload == InitPayload /\ [][NextPayload]_vars

\* the raw string parses as JSON to an object whose field key is a number that is
\* an integer and >= 0
ValidIndexField(rawText, key) ==
  LET j == JsonParse(rawText)
  IN  /\ rawText # <<>> /\ j.ok
      /\ j.val.kind = "object"
      /\ key \in DOMAIN j.val.fields
      /\ j.val.fields[key].kind = "number"
      /\ j.val.fields[key].num % 10 = 0
      /\ j.val.fields[key].num >= 0

\* C6: parseCardDragPayload and parseColumnDragPayload never raise; they return
\* a payload exactly when the raw string parses as JSON and every required field
\* (columnIndex, and itemIndex for a card) is a number that is an integer >= 0,
\* and null otherwise; a payload has exactly the required fields, with the
\* parsed values.
C6_PayloadContract ==
  /\ cardResult.st \in {"idle", "returned"}
  /\ colResult.st \in {"idle", "returned"}
  /\ cardResult.st = "returned" =>
       /\ ~cardResult.isNull <=>
            ValidIndexField(raw, "columnIndex") /\ ValidIndexField(raw, "itemIndex")
       /\ ~cardResult.isNull =>
            /\ DOMAIN cardResult.payload = {"columnIndex", "itemIndex"}
            /\ cardResult.payload.columnIndex = JsonParse(raw).val.fields["columnIndex"].num
            /\ cardResult.payload.itemIndex = JsonParse(raw).val.fields["itemIndex"].num
  /\ colResult.st = "returned" =>
       /\ ~colResult.isNull <=> ValidIndexField(raw, "columnIndex")
       /\ ~colResult.isNull =>
            /\ DOMAIN colResult.payload = {"columnIndex"}
            /\ colResult.payload.columnIndex = JsonParse(raw).val.fields["columnIndex"].num

\* C6 witness: a raw string with a valid columnIndex and a fractional itemIndex was
\* decoded by both: the column payload has the one field, the card payload is null
C6_Witness ==
  /\ cardResult.st = "returned" /\ cardResult.isNull
  /\ colResult.st = "returned" /\ ~colResult.isNull
  /\ Len(raw) = 9 /\ raw[8] = TNum(15)

---------------------------------------------------------------------------
(* main.ts: serializing a board and merging it into the lines of a block.  *)
(* Line indices are 1-based here; 0 stands for JavaScript's -1.            *)

\* formatItemLines: the lines of one item, the first with its status in the style
formatItemLines(status, text, style) ==
  LET First(line) ==
        IF style = "colon" THEN status \o <<":", " ">> \o line
        ELSE <<"[">> \o status \o <<"]", " ">> \o line
      Lines(lines) == IF lines = <<>> THEN <<>> ELSE <<First(lines[1])>> \o Tail(lines)
  IN  Lines(FilterNonEmpty(TrimAll(SplitLines(Trim(text)))))

\* formatListEntryLines, for an entry given as its array of lines (a string entry
\* is split(/\r?\n/) by the caller)
formatListEntryLines(entry, prefix) ==
  LET Lines(lines) ==
        [i \in 1..Len(lines) |->
           IF i = 1 THEN prefix \o lines[i] ELSE Spaces(Len(prefix)) \o lines[i]]
  IN  Lines(FilterNonEmpty(TrimAll(entry)))

ListPrefix == <<" ", " ", "-", " ">>

\* the "[status] text" entries of every item of the board, column by column
RECURSIVE ItemEntries(_, _, _, _)
ItemEntries(columns, c, k, style) ==
  LET Entry(lines) == IF lines = <<>> THEN <<>> ELSE <<lines>>
  IN  IF c > Len(columns) THEN <<>>
      ELSE IF k > Len(columns[c].items) THEN ItemEntries(columns, c + 1, 1, style)
      ELSE Entry(formatItemLines(columns[c].statusName, columns[c].items[k], style))
             \o ItemEntries(columns, c, k + 1, style)

\* the column entries: each rawName, as formatListEntryLines splits it
ColumnEntries(columns) == [i \in 1..Len(columns) |-> SplitLines(columns[i].rawName)]

FormatEntries(entries, prefix) ==
  Flatten([i \in 1..Len(entries) |-> formatListEntryLines(entries[i], prefix)])

\* serializeKanbanBoard
serializeKanbanBoard(columns) ==
  JoinLines(<<ColumnsWord>>
              \o [i \in 1..Len(columns) |-> ListPrefix \o columns[i].rawName]
              \o <<ItemsWord>>
              \o FormatEntries(ItemEntries(columns, 1, 1, "bracket"), ListPrefix))

\* /^\s*[-*]\s+/ matches the line
IsListLine(line) ==
  LET Bullet(t) == Len(t) >= 2 /\ t[1] \in {"-", "*"} /\ IsSpace(t[2])
  IN  Bullet(TrimStart(line))

\* the match of /^(\s*[-*]\s+)/ on a list line: indent, bullet, white space
ListLinePrefix(line) ==
  LET Bullet(t) == LeadingSpace(line) \o <<t[1]>> \o LeadingSpace(Tail(t))
  IN  Bullet(TrimStart(line))

\* getListPrefix
getListPrefix(sectionLines, headerLine) ==
  LET hits == {i \in 1..Len(sectionLines) : IsListLine(sectionLines[i])}
  IN  IF hits # {} THEN ListLinePrefix(sectionLines[Min(hits)])
      ELSE LeadingSpace(headerLine) \o ListPrefix

\* /^\[[^\]]+\]\s+/ matches the content of a list line
LooksBracket(content) ==
  LET closes == {j \in 1..Len(content) : content[j] = "]"}
  IN  /\ content # <<>> /\ content[1] = "[" /\ closes # {}
      /\ Min(closes) >= 3
      /\ Len(content) > Min(closes) /\ IsSpace(content[Min(closes) + 1])

\* /^[^:]+:\s+/ matches the content of a list line
LooksColon(content) ==
  LET colons == {j \in 1..Len(content) : content[j] = ":"}
  IN  /\ colons # {} /\ Min(colons) >= 2
      /\ Len(content) > Min(colons) /\ IsSpace(content[Min(colons) + 1])

\* detectItemStyle: the style of the first list line that shows one
detectItemStyle(sectionLines) ==
  LET Style(content) ==
        IF LooksBracket(content) THEN "bracket"
        ELSE IF LooksColon(content) THEN "colon" ELSE "none"
      styles == [i \in 1..Len(sectionLines) |->
                   IF IsListLine(sectionLines[i])
                   THEN Style(Trim(Tail(TrimStart(sectionLines[i])))) ELSE "none"]
      hits == {i \in 1..Len(sectionLines) : styles[i] # "none"}
  IN  IF hits = {} THEN "bracket" ELSE styles[Min(hits)]

\* the list range of a section: [first, last], first = 0 when it has no list line;
\* last takes in the blank and indented lines that follow the last list line
ListRange(sectionLines) ==
  LET Attached(i) == Trim(sectionLines[i]) = <<>> \/ IsSpace(sectionLines[i][1])
      Extent(first, last) ==
        LET ext == {j \in (last + 1)..Len(sectionLines) :
                      \A i \in (last + 1)..j : Attached(i)}
        IN  [first |-> first, last |-> IF ext = {} THEN last ELSE Max(ext)]
      Hits(hits) ==
        IF hits = {} THEN [first |-> 0, last |-> 0] ELSE Extent(Min(hits), Max(hits))
  IN  Hits({i \in 1..Len(sectionLines) : IsListLine(sectionLines[i])})

\* buildSectionLines
buildSectionLines(sectionLines, entries, headerLine) ==
  LET Build(range, fresh) ==
        IF range.first = 0 THEN sectionLines \o fresh
        ELSE SubSeq(sectionLines, 1, range.first - 1) \o fresh
               \o SubSeq(sectionLines, range.last + 1, Len(sectionLines))
  IN  Build(ListRange(sectionLines),
            FormatEntries(entries, getListPrefix(sectionLines, headerLine)))

\* findHeaderIndex for /^\s*columns:\s*$/i and /^\s*items:\s*$/i: the first line
\* that is the word, 0 when there is none
findHeaderIndex(lines, word) ==
  LET hits == {i \in 1..Len(lines) : ToLowerCase(Trim(lines[i])) = word}
  IN  IF hits = {} THEN 0 ELSE Min(hits)

\* mergeKanbanBlockLines without the test of the headers' order: a block with
\* `items:` before `columns:` is merged section by section
mergeKanbanBlockLinesAnyOrder(lines, columns) ==
  LET Sections(columnsHeaderIndex, itemsHeaderIndex, itemsSectionLines) ==
        SubSeq(lines, 1, columnsHeaderIndex)
          \o buildSectionLines(SubSeq(lines, columnsHeaderIndex + 1, itemsHeaderIndex - 1),
                               ColumnEntries(columns), lines[columnsHeaderIndex])
          \o <<lines[itemsHeaderIndex]>>
          \o buildSectionLines(itemsSectionLines,
                               ItemEntries(columns, 1, 1, detectItemStyle(itemsSectionLines)),
                               lines[itemsHeaderIndex])
      Headers(columnsHeaderIndex, itemsHeaderIndex) ==
        IF columnsHeaderIndex = 0 \/ itemsHeaderIndex = 0
        THEN SplitLines(serializeKanbanBoard(columns))
        ELSE Sections(columnsHeaderIndex, itemsHeaderIndex,
                      SubSeq(lines, itemsHeaderIndex + 1, Len(lines)))
  IN  Headers(findHeaderIndex(lines, ColumnsWord), findHeaderIndex(lines, ItemsWord))

\* mergeKanbanBlockLines
mergeKanbanBlockLines(lines, columns) ==
  LET Sections(columnsHeaderIndex, itemsHeaderIndex, itemsSectionLines) ==
        SubSeq(lines, 1, columnsHeaderIndex)
          \o buildSectionLines(SubSeq(lines, columnsHeaderIndex + 1, itemsHeaderIndex - 1),
                               ColumnEntries(columns), lines[columnsHeaderIndex])
          \o <<lines[itemsHeaderIndex]>>
          \o buildSectionLines(itemsSectionLines,
                               ItemEntries(columns, 1, 1, detectItemStyle(itemsSectionLines)),
                               lines[itemsHeaderIndex])
      Headers(columnsHeaderIndex, itemsHeaderIndex) ==
        IF columnsHeaderIndex = 0 \/ itemsHeaderIndex = 0
             \/ columnsHeaderIndex > itemsHeaderIndex
        THEN SplitLines(serializeKanbanBoard(columns))
        ELSE Sections(columnsHeaderIndex, itemsHeaderIndex,
                      SubSeq(lines, itemsHeaderIndex + 1, Len(lines)))
  IN  Headers(findHeaderIndex(lines, ColumnsWord), findHeaderIndex(lines, ItemsWord))

---------------------------------------------------------------------------
(* main.ts: updateBlockSource, the read-merge-write of one edit.           *)

\* the grave accent U+0060, which cannot be written inside a string of this
\* language: the character is held by name
Grave == "GRAVE"

Backticks == <<Grave, Grave, Grave>>
Tildes    == <<"~", "~", "~">>
KanbanWord == <<"k", "a", "n", "b", "a", "n">>

\* isFenceLine: /^(```|~~~)/ on the trimmed line
isFenceLine(line) ==
  LET Fence(t) == StartsWith(t, Backticks) \/ StartsWith(t, Tildes)
  IN  Fence(Trim(line))

\* isKanbanFenceLine: /^(```|~~~)\s*kanban(\s|$)/i on the trimmed line
isKanbanFenceLine(line) ==
  LET Word(rest) == StartsWith(rest, KanbanWord) /\ (Len(rest) = 6 \/ IsSpace(rest[7]))
      Fence(t) ==
        /\ StartsWith(t, Backticks) \/ StartsWith(t, Tildes)
        /\ Word(ToLowerCase(TrimStart(SubSeq(t, 4, Len(t)))))
  IN  Fence(Trim(line))

\* findOpenFence, for 0-based start and end: the 1-based index of the first kanban
\* fence line among lines[start..end], 0 when there is none
findOpenFence(lines, start, end) ==
  LET hits == {i \in 1..Len(lines) :
                 i - 1 >= start /\ i - 1 <= end /\ isKanbanFenceLine(lines[i])}
  IN  IF hits = {} THEN 0 ELSE Min(hits)

\* findCloseFence: the 1-based index of the last fence line among lines[start..end]
findCloseFence(lines, start, end) ==
  LET hits == {i \in 1..Len(lines) :
                 i - 1 >= start /\ i - 1 <= end /\ isFenceLine(lines[i])}
  IN  IF hits = {} THEN 0 ELSE Max(hits)

\* updateBlockSource from the contents vault.read returned on: what it cut out,
\* what the merge gave, whether it calls vault.modify and with what
updateBlockSource(contents, sectionInfo, columns) ==
  LET nothing == [found |-> FALSE, modify |-> FALSE, contents |-> contents,
                  blockLines |-> <<>>, newLines |-> <<>>,
                  openIndex |-> 0, closeIndex |-> 0]
      Result(block, merged, nextContents, openIndex, closeIndex) ==
        [found |-> TRUE, modify |-> nextContents # contents,
         contents |-> nextContents, blockLines |-> block, newLines |-> merged,
         openIndex |-> openIndex, closeIndex |-> closeIndex]
      Merged(lines, openIndex, closeIndex, block, merged) ==
        Result(block, merged,
               JoinLines(SubSeq(lines, 1, openIndex) \o merged
                           \o SubSeq(lines, closeIndex, Len(lines))),
               openIndex, closeIndex)
      Block(lines, openIndex, closeIndex, block) ==
        Merged(lines, openIndex, closeIndex, block,
               mergeKanbanBlockLines(block, columns))
      Fenced(lines, openIndex, closeIndex) ==
        IF openIndex = 0 \/ closeIndex = 0 \/ openIndex >= closeIndex THEN nothing
        ELSE Block(lines, openIndex, closeIndex,
                   SubSeq(lines, openIndex + 1, closeIndex - 1))
      Lines(lines, start, end) ==
        IF start >= Len(lines) THEN nothing
        ELSE Fenced(lines, findOpenFence(lines, start, end),
                    findCloseFence(lines, start, end))
  IN  Lines(SplitLines(contents), sectionInfo.lineStart, sectionInfo.lineEnd)

---------------------------------------------------------------------------
(* One edit of a rendered block: the code block processor parses the block, *)
(* a handler edits a clone of the board, updateBlockSource writes it back.  *)

\* the text between the fences of the block, which the host hands to the code
\* block processor as `source`; <<>> when the section holds no block
BlockSource(contents, sectionInfo) ==
  LET Between(lines, openIndex, closeIndex) ==
        JoinLines(SubSeq(lines, openIndex + 1, closeIndex - 1))
      Lines(lines) ==
        Between(lines,
                findOpenFence(lines, sectionInfo.lineStart, sectionInfo.lineEnd),
                findCloseFence(lines, sectionInfo.lineStart, sectionInfo.lineEnd))
  IN  Lines(SplitLines(contents))

\* a document: the lines before the block, the fenced block, the lines after it,
\* every line but the last ended by eol, the last by eol when final is TRUE
RECURSIVE JoinWith(_, _)
JoinWith(lines, eol) ==
  IF lines = <<>> THEN <<>>
  ELSE IF Len(lines) = 1 THEN lines[1]
  ELSE lines[1] \o eol \o JoinWith(Tail(lines), eol)

Document(before, open, block, close, after, eol, final) ==
  JoinWith(before \o <<open>> \o block \o <<close>> \o after, eol)
    \o (IF final THEN eol ELSE <<>>)

\* the section of the block in such a document (0-based fence lines)
SectionOf(before, block) ==
  [lineStart |-> Len(before), lineEnd |-> Len(before) + Len(block) + 1]

LF   == <<"\n">>
CRLF == <<"\r", "\n">>

\* the block of the documents whose surroundings vary
PlainBlock ==
  << <<"c", "o", "l", "u", "m", "n", "s", ":">>, <<" ", " ", "-", " ", "T", "o", "d", "o">>, <<" ", " ", "-", " ", "D", "o", "n", "e">>,
     <<"i", "t", "e", "m", "s", ":">>, <<" ", " ", "-", " ", "[", "T", "o", "d", "o", "]", " ", "x">>, <<" ", " ", "-", " ", "[", "D", "o", "n", "e", "]", " ", "y">> >>

Surroundings ==
  { [before |-> <<>>, after |-> <<>>],
    [before |-> <<<<"#", " ", "P", "l", "a", "n">>, <<>>>>, after |-> <<>>],
    [before |-> <<<<"i", "n", "t", "r", "o", " ", " ">>>>, after |-> <<<<>>, <<"t", "h", "e", " ", "e", "n", "d">>>>] }

Fences ==
  { [open |-> Backticks \o KanbanWord, close |-> Backticks],
    [open |-> Tildes \o <<" ", "K", "a", "n", "b", "a", "n">>, close |-> Tildes] }

\* what the rename prompt can submit
RenameValues == {<<"z">>, <<" ", "p", "\n", "q", " ">>, <<" ", " ">>}

InitUpdate ==
  /\ \E s \in Surroundings, f \in Fences, eol \in {LF, CRLF}, final \in BOOLEAN :
       /\ doc = Document(s.before, f.open, PlainBlock, f.close, s.after, eol, final)
       /\ section = SectionOf(s.before, PlainBlock)
  /\ epc = "start"
  /\ rendered = <<>> /\ edited = [kind |-> "none", columns |-> <<>>]
  /\ blockLines = <<>> /\ newLines = <<>> /\ written = <<>>
  /\ IdleMove /\ IdlePayload /\ IdleParse /\ IdleQueue

\* the code block processor (main.ts 64-78): parseKanbanSource(source), then render
Render ==
  /\ epc = "start"
  /\ \E b \in {parseKanbanSource(BlockSource(doc, section))} :
       IF b.threw THEN epc' = "crashed" /\ rendered' = <<>>
       ELSE epc' = "rendered" /\ rendered' = b.columns
  /\ UNCHANGED <<doc, section, edited, blockLines, newLines, written,
                 moveVars, payloadVars, parseVars, queueVars>>

\* isValidColumnIndex / isValidItemIndex on the rendered board
isValidColumnIndex(columns, columnIndex) ==
  columnIndex >= 0 /\ columnIndex < Len(columns)

isValidItemIndex(columns, columnIndex, itemIndex) ==
  /\ isValidColumnIndex(columns, columnIndex)
  /\ itemIndex >= 0 /\ itemIndex < Len(columns[columnIndex + 1].items)

\* the rename prompt's onSubmit (main.ts 1488-1496) for the card at
\* (columnIndex, itemIndex): an empty name changes nothing and writes nothing
EditRename(columnIndex, itemIndex, value) ==
  /\ epc = "rendered"
  /\ isValidItemIndex(rendered, columnIndex, itemIndex)
  /\ rendered[columnIndex + 1].items[itemIndex + 1] # <<>>
  /\ Trim(value) # <<>>
  /\ edited' = [kind |-> "rename",
                columns |-> [cloneBoard(rendered) EXCEPT
                               ![columnIndex + 1].items[itemIndex + 1] = Trim(value)]]
  /\ epc' = "edited"
  /\ UNCHANGED <<doc, section, rendered, blockLines, newLines, written,
                 moveVars, payloadVars, parseVars, queueVars>>

\* the drop of a dragged card on the card at (columnIndex, itemIndex), before or
\* after it (main.ts 1635-1661), for a payload the validator let through
EditDropCard(fromColumn, fromItem, columnIndex, itemIndex, isAfter) ==
  /\ epc = "rendered"
  /\ isValidItemIndex(rendered, fromColumn, fromItem)
  /\ isValidItemIndex(rendered, columnIndex, itemIndex)
  /\ edited' = [kind |-> "move",
                columns |-> moveCard(cloneBoard(rendered), fromColumn, fromItem, columnIndex,
                                     IF isAfter THEN itemIndex + 1 ELSE itemIndex)]
  /\ epc' = "edited"
  /\ UNCHANGED <<doc, section, rendered, blockLines, newLines, written,
                 moveVars, payloadVars, parseVars, queueVars>>

\* updateBoard(nextBoard): updateBlockSource reads the document, merges, and
\* writes when the text changed
Update ==
  /\ epc = "edited"
  /\ \E r \in {updateBlockSource(doc, section, edited.columns)} :
       /\ blockLines' = r.blockLines
       /\ newLines' = r.newLines
       /\ written' = IF r.modify THEN r.contents ELSE doc
  /\ epc' = "updated"
  /\ UNCHANGED <<doc, section, rendered, edited,
                 moveVars, payloadVars, parseVars, queueVars>>

NextEdit ==
  \/ Render
  \/ \E c \in ColumnArgs, k \in ItemArgs, v \in RenameValues : EditRename(c, k, v)
  \/ \E fc \in ColumnArgs, fk \in ItemArgs, c \in ColumnArgs, k \in ItemArgs,
        isAfter \in BOOLEAN : EditDropCard(fc, fk, c, k, isAfter)
  \/ Update

SpecUpdate == InitUpdate /\ [][NextEdit]_vars

\* the characters of a document up to and including its n-th line and that
\* line's terminator
ThroughLine(contents, n) ==
  LET ends == {i \in 1..Len(contents) : contents[i] = "\n"}
      upto == {i \in ends : Cardinality({j \in ends : j <= i}) = n}
  IN  IF n = 0 THEN <<>>
      ELSE IF upto = {} THEN contents ELSE SubSeq(contents, 1, Min(upto))

\* the characters of a document from its n-th line to the end
FromLine(contents, n) ==
  SubSeq(contents, Len(ThroughLine(contents, n - 1)) + 1, Len(contents))

EndsWith(s, q) == Len(s) >= Len(q) /\ SubSeq(s, Len(s) - Len(q) + 1, Len(s)) = q

\* C7: whatever the document's line endings and the edit, the content
\* updateBlockSource leaves in the vault is byte-identical to the content it read
\* up to and including the opening fence line and from the closing fence line on.
C7_OutsideBlockUntouched ==
  epc = "updated" =>
    /\ StartsWith(written, ThroughLine(doc, section.lineStart + 1))
    /\ EndsWith(written, FromLine(doc, section.lineEnd + 1))

---------------------------------------------------------------------------
(* Merging one card's new text into blocks whose list sections vary.       *)

MaxColumnLines == 2
MaxItemLines   == 2

\* the sequences of at most n lines drawn from pool
LineSeqs(pool, n) == UNION {[1..k -> pool] : k \in 0..n}

\* lines a hand-written columns section holds: list lines with either bullet, a
\* comment, a blank line
ColumnLinePool ==
  {<<" ", " ", "-", " ", "T", "o", "d", "o">>, <<" ", " ", "*", " ", "D", "o", "n", "e">>, <<" ", " ", "#", " ", "n", "o", "t", "e">>, <<>>}

\* lines a hand-written items section holds
ItemLinePool ==
  {<<" ", " ", "-", " ", "[", "T", "o", "d", "o", "]", " ", "x">>, <<" ", " ", "*", " ", "D", "o", "n", "e", ":", " ", "y">>, <<"#", " ", "l", "a", "t", "e", "r">>}

\* what precedes the columns header inside the block
BlockIntros == {<<>>, <<<<"b", "o", "a", "r", "d", " ", "o", "f", " ", "t", "h", "e", " ", "w", "e", "e", "k">>>>}

MergeBlocks ==
  {intro \o <<ColumnsWord>> \o cs \o <<ItemsWord>> \o ks :
     intro \in BlockIntros,
     cs \in LineSeqs(ColumnLinePool, MaxColumnLines),
     ks \in LineSeqs(ItemLinePool, MaxItemLines)}

InitMerge ==
  /\ \E block \in MergeBlocks :
       /\ doc = Document(<<>>, Tildes \o KanbanWord, block, Tildes, <<>>, LF, TRUE)
       /\ section = SectionOf(<<>>, block)
  /\ epc = "start"
  /\ rendered = <<>> /\ edited = [kind |-> "none", columns |-> <<>>]
  /\ blockLines = <<>> /\ newLines = <<>> /\ written = <<>>
  /\ IdleMove /\ IdlePayload /\ IdleParse /\ IdleQueue

SpecMerge == InitMerge /\ [][NextEdit]_vars

\* the lines of the block before the first list line of its items section
BeforeItemsList(lines) ==
  LET h == findHeaderIndex(lines, ItemsWord)
      range == ListRange(SubSeq(lines, h + 1, Len(lines)))
  IN  SubSeq(lines, 1, h + range.first - 1)

\* the lines of the block after the list range of its items section
AfterItemsList(lines) ==
  LET h == findHeaderIndex(lines, ItemsWord)
      range == ListRange(SubSeq(lines, h + 1, Len(lines)))
  IN  SubSeq(lines, h + range.last + 1, Len(lines))

\* C8: when the board merged differs from the block's parsed board only in the
\* text of one item, every line outside the items list range (the lines before
\* `columns:`, the headers, the columns list lines, comments and blank lines) is
\* byte-identical to the original line at the same place.
C8_OutsideItemsListUntouched ==
  (epc = "updated" /\ edited.kind = "rename") =>
    /\ StartsWith(newLines, BeforeItemsList(blockLines))
    /\ EndsWith(newLines, AfterItemsList(blockLines))

---------------------------------------------------------------------------
(* parse -> serialize -> parse on texts of a few lines.                    *)

MaxSourceLines == 3

\* the lines the texts are made of: headers, an inline column list, column
\* declarations that repeat a name with and without a limit or a colour, items in
\* both notations, an item whose status is a name every object inherits
SourceLinePool ==
  {<<"c", "o", "l", "u", "m", "n", "s", ":">>, <<"i", "t", "e", "m", "s", ":">>, <<"c", "o", "l", "u", "m", "n", "s", ":", " ", "T", "o", "d", "o", ",", " ", "D", "o", "n", "e", " ", "{", "#", "0", "F", "0", "}">>,
   <<"-", " ", "D", "o", "i", "n", "g">>, <<"-", " ", "D", "o", "i", "n", "g", " ", "(", "5", ")">>,
   <<"-", " ", "[", "D", "o", "i", "n", "g", "]", " ", "x">>, <<"-", " ", "D", "o", "n", "e", ":", " ", "y">>, <<"-", " ", "[", "c", "o", "n", "s", "t", "r", "u", "c", "t", "o", "r", "]", " ", "x">>}

Sources == {JoinLines(ls) : ls \in LineSeqs(SourceLinePool, MaxSourceLines)}

InitParse ==
  /\ source \in Sources
  /\ ppc = "start"
  /\ parsed = <<>> /\ serialized = <<>> /\ reparsed = <<>> /\ scan = Idle
  /\ IdleMove /\ IdlePayload /\ IdleEdit /\ IdleQueue

\* parseKanbanSource(source): returns a board or raises
Parse ==
  /\ ppc = "start"
  /\ \E b \in {parseKanbanSource(source)} :
       /\ parsed' = b.columns
       /\ ppc' = IF b.threw THEN "threw" ELSE "parsed"
  /\ UNCHANGED <<source, serialized, reparsed, scan,
                 moveVars, payloadVars, editVars, queueVars>>

\* serializeKanbanBoard(board)
Serialize ==
  /\ ppc = "parsed"
  /\ serialized' = serializeKanbanBoard(parsed)
  /\ ppc' = "serialized"
  /\ UNCHANGED <<source, parsed, reparsed, scan,
                 moveVars, payloadVars, editVars, queueVars>>

\* parseKanbanSource of the serialized text
Reparse ==
  /\ ppc = "serialized"
  /\ \E b \in {parseKanbanSource(serialized)} :
       /\ reparsed' = b.columns
       /\ ppc' = IF b.threw THEN "rethrew" ELSE "reparsed"
  /\ UNCHANGED <<source, parsed, serialized, scan,
                 moveVars, payloadVars, editVars, queueVars>>

NextParse == Parse \/ Serialize \/ Reparse

SpecParse == InitParse /\ [][NextParse]_vars

\* what the round trip is to keep of a board: per column its identity, WIP limit,
\* colour and items
BoardContent(columns) ==
  [i \in 1..Len(columns) |->
     [name |-> columns[i].name, wipLimit |-> columns[i].wipLimit,
      color |-> columns[i].color, items |-> columns[i].items]]

\* C9: parse(serialize(parse(s))) equals parse(s) in column identities and
\* order, WIP limits, colours and per-column item sequences, for every text s.
C9_ParseSerializeIdempotent ==
  ppc = "reparsed" => BoardContent(reparsed) = BoardContent(parsed)

\* C10: parseKanbanSource returns a board and raises no error, whatever strings
\* appear as column names and item statuses.
C10_ParseNeverRaises ==
  ppc \notin {"threw", "rethrew"}

---------------------------------------------------------------------------
(* main.ts: createBoardUpdater.  Every rendered block has its own updater,  *)
(* whose `queue` is a promise chain: one link                              *)
(*   queue.then(() => updateBlockSource(...)).catch(handler)               *)
(* per updateBoard call.  A link is [edit, pc, read, caught]:              *)
(*   pc "queued"   the then-callback has not run                           *)
(*      "reading"  updateBlockSource awaits vault.read                     *)
(*      "writing"  updateBlockSource awaits vault.modify                   *)
(*      "done"     updateBlockSource returned                              *)
(*      "rejected" updateBlockSource rejected (read or modify failed)      *)
(*      "skipped"  the then-callback was passed over: the promise it was   *)
(*                 chained on rejected                                     *)
(*   read   the file as vault.read returned it                             *)
(*   caught the catch handler of the link has run                          *)
(* The file is the sequence of the edits written into it.                  *)

MaxEdits == 3

\* the rendered blocks: the code block processor ran once for each
Updaters == {"left", "right"}

\* the handler throwing the error again
HandlerRethrows == "rejected"

\* the catch handler logs, shows a Notice and returns: its promise fulfils
HandlerOutcome == "fulfilled"

\* the chain without .catch: a rejected link leaves `queue` rejected
QueueStateNoCatch(link) ==
  IF link.pc = "done" THEN "fulfilled"
  ELSE IF link.pc \in {"rejected", "skipped"} THEN "rejected"
  ELSE "pending"

\* the state of the promise a link leaves in `queue`
QueueState(link) ==
  IF link.pc = "done" THEN "fulfilled"
  ELSE IF link.pc \in {"rejected", "skipped"} /\ link.caught THEN HandlerOutcome
  ELSE "pending"

\* every then-callback chained on a promise that is already resolved
PrevQueueFresh(links, k) == "fulfilled"

\* the state of the promise the k-th link of an updater was chained on: `queue`
\* as the call before left it, Promise.resolve() for the first
PrevQueue(links, k) ==
  IF k = 1 THEN "fulfilled" ELSE QueueState(links[k - 1])

\* the number of updateBoard calls so far
RECURSIVE Submitted(_, _)
Submitted(ch, us) ==
  IF us = {} THEN 0
  ELSE LET u == CHOOSE x \in us : TRUE
       IN  Len(ch[u]) + Submitted(ch, us \ {u})

InitQueue ==
  /\ chain = [u \in Updaters |-> <<>>]
  /\ file = <<>>
  /\ notices = 0
  /\ IdleMove /\ IdlePayload /\ IdleParse /\ IdleEdit

\* updateBoard(board) on updater u: one more link on its chain
UpdateBoard(u) ==
  /\ Submitted(chain, Updaters) < MaxEdits
  /\ chain' = [chain EXCEPT ![u] =
                 Append(@, [edit |-> Submitted(chain, Updaters) + 1, pc |-> "queued",
                            read |-> <<>>, caught |-> FALSE])]
  /\ UNCHANGED <<file, notices, moveVars, payloadVars, parseVars, editVars>>

\* the then-callback of link k runs once the promise it was chained on fulfils,
\* and is passed over when that promise rejects; updateBlockSource returns at
\* once when the section or the file is not there (present = FALSE)
StartEdit(u, k, present) ==
  /\ k <= Len(chain[u])
  /\ chain[u][k].pc = "queued"
  /\ \E prev \in {PrevQueue(chain[u], k)} :
       /\ prev # "pending"
       /\ chain' = [chain EXCEPT ![u][k].pc =
                      IF prev = "rejected" THEN "skipped"
                      ELSE IF present THEN "reading" ELSE "done"]
  /\ UNCHANGED <<file, notices, moveVars, payloadVars, parseVars, editVars>>

\* vault.read settles: rejected, or resolved with the contents; updateBlockSource
\* returns when it finds no block or the merge changes nothing (changed = FALSE),
\* and calls vault.modify otherwise
ReadResolve(u, k, ok, changed) ==
  /\ k <= Len(chain[u])
  /\ chain[u][k].pc = "reading"
  /\ chain' = [chain EXCEPT ![u][k] =
                 IF ~ok THEN [@ EXCEPT !.pc = "rejected"]
                 ELSE [@ EXCEPT !.read = file,
                                !.pc = IF changed THEN "writing" ELSE "done"]]
  /\ UNCHANGED <<file, notices, moveVars, payloadVars, parseVars, editVars>>

\* vault.modify settles: the file becomes what was read with this edit merged in
ModifyResolve(u, k, ok) ==
  /\ k <= Len(chain[u])
  /\ chain[u][k].pc = "writing"
  /\ chain' = [chain EXCEPT ![u][k].pc = IF ok THEN "done" ELSE "rejected"]
  /\ file' = IF ok THEN Append(chain[u][k].read, chain[u][k].edit) ELSE file
  /\ UNCHANGED <<notices, moveVars, payloadVars, parseVars, editVars>>

\* the catch handler of a rejected link: console.error and a Notice
CatchSettle(u, k) ==
  /\ k <= Len(chain[u])
  /\ chain[u][k].pc \in {"rejected", "skipped"}
  /\ ~chain[u][k].caught
  /\ chain' = [chain EXCEPT ![u][k].caught = TRUE]
  /\ notices' = notices + 1
  /\ UNCHANGED <<file, moveVars, payloadVars, parseVars, editVars>>

NextQueue ==
  \/ \E u \in Updaters : UpdateBoard(u)
  \/ \E u \in Updaters, k \in 1..MaxEdits, present \in BOOLEAN : StartEdit(u, k, present)
  \/ \E u \in Updaters, k \in 1..MaxEdits, ok \in BOOLEAN, changed \in BOOLEAN :
       ReadResolve(u, k, ok, changed)
  \/ \E u \in Updaters, k \in 1..MaxEdits, ok \in BOOLEAN : ModifyResolve(u, k, ok)
  \/ \E u \in Updaters, k \in 1..MaxEdits : CatchSettle(u, k)

SpecQueue == InitQueue /\ [][NextQueue]_vars

\* the event loop runs every reaction whose promise has settled, and every vault
\* call settles; nothing obliges the user to submit edits
FairSpecQueue ==
  /\ SpecQueue
  /\ \A u \in Updaters, k \in 1..MaxEdits :
       /\ WF_vars(\E present \in BOOLEAN : StartEdit(u, k, present))
       /\ WF_vars(\E ok \in BOOLEAN, changed \in BOOLEAN : ReadResolve(u, k, ok, changed))
       /\ WF_vars(\E ok \in BOOLEAN : ModifyResolve(u, k, ok))
       /\ WF_vars(CatchSettle(u, k))

\* updateBlockSource of the link is between its start and its end
InFlight(link) == link.pc \in {"reading", "writing"}

\* updateBlockSource of the link was called
Started(link) == link.pc \in {"reading", "writing", "done", "rejected"}

\* updateBlockSource of the link ran to completion: it returned or it failed
Finished(link) == link.pc \in {"done", "rejected"}

\* C3: the edits of one rendered block are serialized: the read-merge-write of
\* an edit starts only when that of every edit submitted to the block before it
\* has ended, so no two of them overlap and they run in submission order.
C3_EditsSerialized ==
  \A u \in Updaters : \A j, k \in 1..Len(chain[u]) :
    (j < k /\ Started(chain[u][k])) => Finished(chain[u][j])

\* an edit waits behind the in-flight write of the edit submitted before it,
\* while the other block's edit is in flight too
C3_Witness ==
  \E u, v \in Updaters :
    /\ u # v
    /\ Len(chain[u]) >= 2 /\ chain[u][1].pc = "writing" /\ chain[u][2].pc = "queued"
    /\ Len(chain[v]) >= 1 /\ InFlight(chain[v][1])

\* the number of links whose catch handler has run
RECURSIVE CaughtCount(_, _)
CaughtCount(ch, us) ==
  IF us = {} THEN 0
  ELSE LET u == CHOOSE x \in us : TRUE
       IN  Cardinality({k \in 1..Len(ch[u]) : ch[u][k].caught})
             + CaughtCount(ch, us \ {u})

\* C4: a failed read or write is caught and reported, and does not leave the
\* queue failed: no link leaves a rejected promise in `queue`, no edit is passed
\* over, only failed edits are reported, once each, and the edits around a
\* failure run in order.
C4_FailureCaught ==
  /\ \A u \in Updaters : \A k \in 1..Len(chain[u]) :
       /\ QueueState(chain[u][k]) # "rejected"
       /\ chain[u][k].pc # "skipped"
       /\ chain[u][k].caught => chain[u][k].pc = "rejected"
       /\ (k > 1 /\ Started(chain[u][k])) => Finished(chain[u][k - 1])
  /\ notices = CaughtCount(chain, Updaters)

\* an edit runs after the failure of the edit before it was caught and reported
C4_Witness ==
  \E u \in Updaters :
    /\ Len(chain[u]) >= 2
    /\ chain[u][1].pc = "rejected" /\ chain[u][1].caught /\ notices >= 1
    /\ chain[u][2].pc = "reading"

\* the links of the edit submitted as the e-th (one, once it is submitted)
EditLinks(e) ==
  {l \in UNION {{chain[u][k] : k \in 1..Len(chain[u])} : u \in Updaters} : l.edit = e}

SubmittedEdit(e) == EditLinks(e) # {}

CompletedEdit(e) == \E l \in EditLinks(e) : Finished(l)

\* C5: under fair scheduling, with every vault call settling, every edit passed
\* to updateBoard eventually has its updateBlockSource run to completion,
\* applied or failed, whatever became of the edits before it.
C5_EveryEditCompletes ==
  \A e \in 1..MaxEdits : SubmittedEdit(e) ~> CompletedEdit(e)

\* the edit submitted behind a failed edit was written into the file
C5_Witness ==
  \E u \in Updaters :
    /\ Len(chain[u]) >= 2
    /\ chain[u][1].pc = "rejected"
    /\ chain[u][2].pc = "done"
    /\ \E i \in 1..Len(file) : file[i] = chain[u][2].edit

---------------------------------------------------------------------------
(* kanban-core.ts: parseKanbanSource on blocks of the documented shape: a  *)
(* `columns:` header, column declarations, an `items:` header, item lines. *)

MaxDeclarations == 3
MaxEntries == 2

\* column declarations: one name with no suffix, with a limit, with another limit
\* and a colour under another letter case, a second name, and a name every object
\* inherits
DeclarationPool ==
  {<<" ", " ", "-", " ", "D", "o", "i", "n", "g">>, <<" ", " ", "-", " ", "D", "o", "i", "n", "g", " ", "(", "3", ")">>, <<" ", " ", "-", " ", "d", "o", "i", "n", "g", " ", "(", "5", ")", " ", "{", "#", "0", "f", "0", "}">>,
   <<" ", " ", "-", " ", "D", "o", "n", "e", " ", "{", "#", "F", "0", "0", "}">>, <<" ", " ", "-", " ", "c", "o", "n", "s", "t", "r", "u", "c", "t", "o", "r">>}

\* item lines: both notations, a status that carries a suffix, a status no
\* declaration above has, a status every object inherits, an entry with no status
EntryPool ==
  {<<" ", " ", "-", " ", "[", "D", "o", "i", "n", "g", "]", " ", "x">>, <<" ", " ", "-", " ", "d", "o", "i", "n", "g", ":", " ", "y">>, <<" ", " ", "-", " ", "[", "D", "o", "n", "e", " ", "(", "2", ")", "]", " ", "w">>,
   <<" ", " ", "-", " ", "[", "L", "a", "t", "e", "r", "]", " ", "z">>, <<" ", " ", "-", " ", "[", "c", "o", "n", "s", "t", "r", "u", "c", "t", "o", "r", "]", " ", "v">>, <<" ", " ", "-", " ", "t">>}

DeclaredSources ==
  {JoinLines(<<ColumnsWord>> \o ds \o <<ItemsWord>> \o es) :
     ds \in LineSeqs(DeclarationPool, MaxDeclarations),
     es \in LineSeqs(EntryPool, MaxEntries)}

InitBoards ==
  /\ source \in DeclaredSources
  /\ ppc = "start"
  /\ parsed = <<>> /\ serialized = <<>> /\ reparsed = <<>> /\ scan = Idle
  /\ IdleMove /\ IdlePayload /\ IdleEdit /\ IdleQueue

SpecBoards == InitBoards /\ [][NextParse]_vars

\* the column declarations and the item entries of a text, as the line loop
\* of parseKanbanSource collects them
Scanned(src) ==
  ScanLines([section |-> "none", defs |-> <<>>, items |-> <<>>], SplitLines(src))

DeclarationKeys(defs) ==
  [i \in 1..Len(defs) |-> normalizeColumnKey(defs[i].rawName)]

\* the first value of vals, among the places in S, that is set
FirstSet(vals, S) ==
  LET set == {i \in S : vals[i] # <<>>}
  IN  IF set = {} THEN <<>> ELSE vals[Min(set)]

ColumnsOfKey(columns, key) ==
  {c \in 1..Len(columns) : normalizeColumnKey(columns[c].rawName) = key}

OneColumnPerKey(defs, keys, columns) ==
  \A i \in 1..Len(defs) :
    LET Same(same) ==
          Cardinality(same) >= 2 =>
            LET Rank(rank) ==
                  /\ ColumnsOfKey(columns, keys[i]) = {rank}
                  /\ columns[rank].wipLimit =
                       FirstSet([j \in 1..Len(defs) |-> defs[j].wipLimit], same)
                  /\ columns[rank].color =
                       FirstSet([j \in 1..Len(defs) |-> defs[j].color], same)
            IN  Rank(Cardinality({keys[j] : j \in 1..Min(same)}))
    IN  Same({j \in 1..Len(defs) : keys[j] = keys[i]})

\* C11: when several column declarations have the same normalized key, the board
\* has exactly one column for that key, at the position of the first of them;
\* wipLimit and color are those of the first declaration of the key that sets
\* them, whether earlier declarations of the key left them unset or not.
C11_DuplicateDeclarationsMerge ==
  ppc = "parsed" =>
    LET Defs(defs) == OneColumnPerKey(defs, DeclarationKeys(defs), parsed)
    IN  Defs(Scanned(source).defs)

\* the texts of the item entries whose status has the given key, in source order
TextsOfKey(items, key) ==
  LET hits == SelectSeq(items, LAMBDA item : normalizeColumnKey(item.status) = key)
  IN  [i \in 1..Len(hits) |-> hits[i].text]

ItemsJoinDeclaredColumns(defs, items, columns) ==
  \A i \in 1..Len(defs) :
    LET Key(key, texts) ==
          texts # <<>> =>
            /\ ppc = "parsed"
            /\ Cardinality(ColumnsOfKey(columns, key)) = 1
            /\ \A c \in ColumnsOfKey(columns, key) :
                 /\ columns[c].items = texts
                 /\ columns[c].name = defs[Min({j \in 1..Len(defs) :
                                       normalizeColumnKey(defs[j].rawName) = key})].baseName
    IN  Key(normalizeColumnKey(defs[i].rawName),
            TextsOfKey(items, normalizeColumnKey(defs[i].rawName)))

\* C12: the item entries whose status, in bracket or colon notation, has the
\* normalized key of a declared column are that column's items, in source order,
\* and the board has one column of that key, named without the declaration's
\* `(N)` and `{#hex}` suffixes.
C12_ItemsJoinDeclaredColumns ==
  ppc \in {"parsed", "threw"} =>
    LET Src(scanned) == ItemsJoinDeclaredColumns(scanned.defs, scanned.items, parsed)
    IN  Src(Scanned(source))

---------------------------------------------------------------------------
(* main.ts: a card added to a block whose item lines are in colon notation. *)

MaxColonLines == 2

\* item lines that parseItemEntry reads as `Status: text`: with one blank after
\* the colon, with none, with the other bullet
ColonLinePool ==
  {<<" ", " ", "-", " ", "T", "o", "d", "o", ":", " ", "x">>, <<" ", " ", "-", " ", "T", "o", "d", "o", ":", "x">>, <<" ", " ", "*", " ", "D", "o", "n", "e", ":", " ", "y">>, <<" ", " ", "-", " ", "D", "o", "n", "e", ":", "y">>}

ColonBlocks ==
  {<<ColumnsWord, <<" ", " ", "-", " ", "T", "o", "d", "o">>, <<" ", " ", "-", " ", "D", "o", "n", "e">>, ItemsWord>> \o ks :
     ks \in LineSeqs(ColonLinePool, MaxColonLines)}

\* what the add-card prompt can submit
AddValues == {<<"z">>, <<" ", "n", " ">>, <<" ">>}

InitColon ==
  /\ \E block \in ColonBlocks :
       /\ doc = Document(<<>>, Backticks \o KanbanWord, block, Backticks, <<>>, LF, TRUE)
       /\ section = SectionOf(<<>>, block)
  /\ epc = "start"
  /\ rendered = <<>> /\ edited = [kind |-> "none", columns |-> <<>>]
  /\ blockLines = <<>> /\ newLines = <<>> /\ written = <<>>
  /\ IdleMove /\ IdlePayload /\ IdleParse /\ IdleQueue

\* the add-card prompt's onSubmit (main.ts 1383-1389) of the column at
\* columnIndex: an empty text changes nothing and writes nothing
EditAddCard(columnIndex, text) ==
  /\ epc = "rendered"
  /\ isValidColumnIndex(rendered, columnIndex)
  /\ Trim(text) # <<>>
  /\ edited' = [kind |-> "add",
                columns |-> [cloneBoard(rendered) EXCEPT
                               ![columnIndex + 1].items = Append(@, Trim(text))]]
  /\ epc' = "edited"
  /\ UNCHANGED <<doc, section, rendered, blockLines, newLines, written,
                 moveVars, payloadVars, parseVars, queueVars>>

NextAdd ==
  \/ Render
  \/ \E c \in ColumnArgs, v \in AddValues : EditAddCard(c, v)
  \/ Update

SpecColon == InitColon /\ [][NextAdd]_vars

\* the entries of the list lines that follow the `items:` header
ItemListEntries(lines) ==
  LET Section(sectionLines) ==
        LET listed == SelectSeq(sectionLines, IsListLine)
        IN  [i \in 1..Len(listed) |-> Trim(Tail(Trim(listed[i])))]
  IN  Section(SubSeq(lines, findHeaderIndex(lines, ItemsWord) + 1, Len(lines)))

\* parseItemEntry reads the entry as `Status: text`
ReadAsColon(entry) == BracketEnd(entry) = 0 /\ ColonEnd(entry) # 0

\* the entry is `Status: text` for a status of the board
ColonForm(entry, columns) ==
  \E c \in 1..Len(columns) : StartsWith(entry, columns[c].statusName \o <<":", " ">>)

\* C13: when every item list line of the block is in colon notation, as
\* parseItemEntry reads it, the merge of the board with one item appended writes
\* every item line, the new one included, as `Status: text` and none as
\* `[Status] text`.
C13_ColonStyleKept ==
  LET Entries(before, after) ==
        (before # <<>> /\ \A i \in 1..Len(before) : ReadAsColon(before[i])) =>
          /\ Len(after) = Len(before) + 1
          /\ \A i \in 1..Len(after) :
               ColonForm(after[i], edited.columns) /\ after[i][1] # "["
  IN  (epc = "updated" /\ edited.kind = "add") =>
        Entries(ItemListEntries(blockLines), ItemListEntries(newLines))

---------------------------------------------------------------------------
(* main.ts: edits of blocks that lack an own-line header, or have the two  *)
(* headers in the other order.                                             *)

\* an inline column list and no `columns:` line; `items:` before `columns:`;
\* no `items:` line; no header at all; and a block with both headers in order
FallbackBlocks ==
  { <<<<"c", "o", "l", "u", "m", "n", "s", ":", " ", "T", "o", "d", "o", ",", " ", "D", "o", "n", "e", " ", "(", "2", ")">>, ItemsWord, <<" ", " ", "-", " ", "[", "T", "o", "d", "o", "]", " ", "x">>, <<" ", " ", "*", " ", "D", "o", "n", "e", ":", " ", "y">>>>,
    <<<<"I", "t", "e", "m", "s", ":">>, <<" ", " ", "-", " ", "[", "T", "o", "d", "o", "]", " ", "x">>, <<" ", " ", " ", " ", "m", "o", "r", "e">>, ColumnsWord, <<" ", " ", "*", " ", "T", "o", "d", "o">>>>,
    <<ColumnsWord, <<" ", " ", "*", " ", "T", "o", "d", "o">>, <<" ", " ", "*", " ", "D", "o", "n", "e", " ", "{", "#", "0", "f", "0", "}">>>>,
    <<<<"#", " ", "n", "o", "t", "h", "i", "n", "g", " ", "y", "e", "t">>>>,
    <<<<"#", " ", "p", "l", "a", "n">>, ColumnsWord, <<" ", " ", "*", " ", "T", "o", "d", "o">>, ItemsWord, <<" ", " ", "*", " ", "T", "o", "d", "o", ":", " ", "x">>>> }

InitFallback ==
  /\ \E block \in FallbackBlocks, f \in Fences :
       /\ doc = Document(<<>>, f.open, block, f.close, <<>>, LF, TRUE)
       /\ section = SectionOf(<<>>, block)
  /\ epc = "start"
  /\ rendered = <<>> /\ edited = [kind |-> "none", columns |-> <<>>]
  /\ blockLines = <<>> /\ newLines = <<>> /\ written = <<>>
  /\ IdleMove /\ IdlePayload /\ IdleParse /\ IdleQueue

SpecFallback == InitFallback /\ [][NextEdit \/ NextAdd]_vars

\* the block has no own-line `columns:` header, or no own-line `items:` header,
\* or its first `items:` header comes before its first `columns:` header
HeadersUnusable(lines) ==
  LET Headers(cs, ks) == cs = {} \/ ks = {} \/ Min(ks) < Min(cs)
  IN  Headers({i \in 1..Len(lines) : ToLowerCase(Trim(lines[i])) = ColumnsWord},
              {i \in 1..Len(lines) : ToLowerCase(Trim(lines[i])) = ItemsWord})

\* the canonical lines of one item: `  - [statusName] text`, the further lines
\* of its text indented under it; none for a blank text
CanonicalItem(statusName, text) ==
  LET Lines(lines) ==
        [i \in 1..Len(lines) |->
           IF i = 1 THEN <<" ", " ", "-", " ", "[">> \o statusName \o <<"]", " ">> \o lines[1]
           ELSE <<" ", " ", " ", " ">> \o lines[i]]
  IN  Lines(SelectSeq([i \in 1..Len(SplitLines(text)) |-> Trim(SplitLines(text)[i])],
                      LAMBDA line : line # <<>>))

RECURSIVE CanonicalItems(_, _, _)
CanonicalItems(columns, c, k) ==
  IF c > Len(columns) THEN <<>>
  ELSE IF k > Len(columns[c].items) THEN CanonicalItems(columns, c + 1, 1)
  ELSE CanonicalItem(columns[c].statusName, columns[c].items[k])
         \o CanonicalItems(columns, c, k + 1)

CanonicalBlock(columns) ==
  <<ColumnsWord>>
    \o [i \in 1..Len(columns) |-> <<" ", " ", "-", " ">> \o columns[i].rawName]
    \o <<ItemsWord>>
    \o CanonicalItems(columns, 1, 1)

\* C14: when the block has no own-line `columns:` header, or no own-line
\* `items:` header, or `items:` first, the merge returns the canonical block of
\* the board: `columns:`, one `  - rawName` line per column, `items:`, one
\* `  - [statusName] text` entry per item whose trimmed text is not empty.
C14_FallbackIsCanonical ==
  (epc = "updated" /\ HeadersUnusable(blockLines)) =>
    newLines = CanonicalBlock(edited.columns)

\* an edit of a block without usable headers has been merged
C14_Witness ==
  /\ epc = "updated" /\ HeadersUnusable(blockLines)
  /\ edited.kind = "add"
  /\ findHeaderIndex(blockLines, ColumnsWord) > findHeaderIndex(blockLines, ItemsWord)
  /\ findHeaderIndex(blockLines, ItemsWord) # 0

---------------------------------------------------------------------------
(* kanban-core.ts: what a column's rawName says of the column.             *)

RawNameDescribes(column) ==
  LET Definition(definition) ==
        /\ definition.baseName = column.name
        /\ definition.wipLimit = column.wipLimit
        /\ definition.color = column.color
  IN  Definition(parseColumnDefinition(column.rawName))

\* C15: for every column of a board returned by parseKanbanSource,
\* parseColumnDefinition(column.rawName) yields the column's name as baseName,
\* its wipLimit and its color.
C15_RawNameDescribesColumn ==
  ppc = "parsed" => \A c \in 1..Len(parsed) : RawNameDescribes(parsed[c])

---------------------------------------------------------------------------
(* main.ts: moveCard on arguments that designate no card.                  *)

\* fromColumnIndex or toColumnIndex is outside [0, columns.length), or
\* fromItemIndex is outside [0, items.length) of the source column
NoSuchCard(columns, fromColumnIndex, fromItemIndex, toColumnIndex) ==
  \/ ~HasColumn(columns, fromColumnIndex)
  \/ ~HasColumn(columns, toColumnIndex)
  \/ fromItemIndex < 0
  \/ fromItemIndex >= Len(columns[fromColumnIndex + 1].items)

\* C16: a moveCard call whose fromColumnIndex or toColumnIndex is out of range,
\* or whose fromItemIndex designates no item of the source column (negative
\* values included), leaves the board unchanged.
C16_NoSuchCardIsNoOp ==
  [][\A fc \in ColumnArgs, tc \in ColumnArgs, fi \in ItemArgs, ti \in ItemArgs :
       (MoveCard(fc, fi, tc, ti) /\ NoSuchCard(board, fc, fi, tc)) => board' = board]_vars

---------------------------------------------------------------------------
(* kanban-core.ts: items whose status no declared column has.              *)

\* the item entries whose status has the key of no declaration
Unmatched(defs, items) ==
  SelectSeq(items, LAMBDA item :
    \A i \in 1..Len(defs) :
      normalizeColumnKey(defs[i].rawName) # normalizeColumnKey(item.status))

UnmatchedGoToSentinel(defs, unmatched, columns) ==
  (defs # <<>> /\ unmatched # <<>>) =>
    /\ ppc = "parsed"
    /\ \E c \in 1..Len(columns) :
         /\ columns[c].name = DEFAULT_COLUMN
         /\ columns[c].items = [i \in 1..Len(unmatched) |-> unmatched[i].text]
    /\ \A i \in 1..Len(unmatched) :
         \/ normalizeColumnKey(unmatched[i].status) = normalizeKey(DEFAULT_COLUMN)
         \/ ColumnsOfKey(columns, normalizeColumnKey(unmatched[i].status)) = {}

\* C17: when columns are declared and an item's status has the normalized key
\* of none of them, the item is appended to the column `Uncategorized`, created
\* if need be, and no column named after the status is created.
C17_UnmatchedGoToSentinel ==
  ppc \in {"parsed", "threw"} =>
    LET Src(scanned) ==
          UnmatchedGoToSentinel(scanned.defs, Unmatched(scanned.defs, scanned.items), parsed)
    IN  Src(Scanned(source))

---------------------------------------------------------------------------
(* kanban-core.ts: the line loop of parseKanbanSource (lines 34-79), one   *)
(* line per step.  scan is [st, rest, prev, line]: the loop's locals       *)
(* [section, defs, items], the lines still to read, and, for the line read *)
(* last, the locals before it and the line itself.                         *)

MaxScanLines == 3

\* lines of an items section: list entries with and without indent, texts that
\* continue an item behind blanks or a tab, indented headers, a dash with
\* nothing after it, a line of blanks, a line that starts at the margin
ScanLinePool ==
  {<<" ", " ", "-", " ", "[", "T", "o", "d", "o", "]", " ", "x">>, <<"-", " ", "T", "o", "d", "o", ":", " ", "y">>, <<" ", " ", "m", "o", "r", "e">>, <<"\t", "l", "a", "s", "t", " ", " ">>, <<" ", " ", "i", "t", "e", "m", "s", ":">>,
   <<" ", " ", "C", "o", "l", "u", "m", "n", "s", ":", " ", "A">>, <<" ", " ", "c", "o", "l", "u", "m", "n", "s", ":">>, <<" ", " ", "-">>, <<" ", " ", " ">>, <<"p", "l", "a", "i", "n">>}

ScanSources ==
  {JoinLines(<<ItemsWord>> \o ls) : ls \in LineSeqs(ScanLinePool, MaxScanLines)}

InitScan ==
  /\ source \in ScanSources
  /\ ppc = "scanning"
  /\ \E st \in {[section |-> "none", defs |-> <<>>, items |-> <<>>]} :
       scan = [st |-> st, rest |-> SplitLines(source), prev |-> st, line |-> <<>>]
  /\ parsed = <<>> /\ serialized = <<>> /\ reparsed = <<>>
  /\ IdleMove /\ IdlePayload /\ IdleEdit /\ IdleQueue

\* one round of `for (const rawLine of lines)`
ScanStep ==
  /\ ppc = "scanning"
  /\ scan.rest # <<>>
  /\ scan' = [st |-> ScanLine(scan.st, Head(scan.rest)), rest |-> Tail(scan.rest),
              prev |-> scan.st, line |-> Head(scan.rest)]
  /\ UNCHANGED <<source, ppc, parsed, serialized, reparsed,
                 moveVars, payloadVars, editVars, queueVars>>

\* the loop ends
ScanEnd ==
  /\ ppc = "scanning"
  /\ scan.rest = <<>>
  /\ ppc' = "scanned"
  /\ UNCHANGED <<source, parsed, serialized, reparsed, scan,
                 moveVars, payloadVars, editVars, queueVars>>

NextScan == ScanStep \/ ScanEnd

SpecScan == InitScan /\ [][NextScan]_vars

\* the line read is not blank, begins with white space, and was read in the
\* items section after an item had been recorded
ReadBelowItem(prev, rawLine) ==
  /\ prev.section = "items" /\ prev.items # <<>>
  /\ Trim(rawLine) # <<>> /\ IsSpace(rawLine[1])

\* items with the line appended, as a new line, to the text of the last of them
WithContinuation(items, line) ==
  [items EXCEPT ![Len(items)].text = @ \o <<"\n">> \o line]

\* the trimmed line is `columns:`, `columns: ...` or `items:`, in any letter case
HeaderLine(line) ==
  LET Low(low) ==
        low = ColumnsWord \/ low = ItemsWord \/ (StartsWith(low, ColumnsWord) /\ Len(low) > 8)
  IN  Low(ToLowerCase(line))

\* the trimmed line is `-` or `*`, white space, and the entry
ListEntryLine(line) == Len(line) >= 2 /\ line[1] \in {"-", "*"} /\ IsSpace(line[2])

\* C18, as claimed: in the items section, once an item is recorded, every
\* non-empty line that begins with white space is appended, as a new line, to the
\* text of the last recorded item, before any header or list-entry rule applies.
C18_ContinuationDecidedFirst ==
  (ppc \in {"scanning", "scanned"} /\ ReadBelowItem(scan.prev, scan.line)) =>
    scan.st.items = WithContinuation(scan.prev.items, Trim(scan.line))

\* C18, amended: the header rules and the list-entry rule are tested first.  In
\* the items section, once an item is recorded, a non-empty line that begins
\* with white space is appended to the text of the last recorded item when it is
\* neither a header nor a list entry; an indented header leaves the items as
\* they are, and an indented list entry records a new item.
C18_ContinuationAfterRules ==
  (ppc \in {"scanning", "scanned"} /\ ReadBelowItem(scan.prev, scan.line)) =>
    LET Line(line) ==
          IF HeaderLine(line) THEN scan.st.items = scan.prev.items
          ELSE IF ListEntryLine(line)
            THEN /\ Len(scan.st.items) = Len(scan.prev.items) + 1
                 /\ SubSeq(scan.st.items, 1, Len(scan.prev.items)) = scan.prev.items
          ELSE scan.st.items = WithContinuation(scan.prev.items, line)
    IN  Line(Trim(scan.line))

\* a line that is neither header nor list entry was appended to an item whose
\* text already had a continuation line
C18_Witness ==
  /\ ppc \in {"scanning", "scanned"} /\ ReadBelowItem(scan.prev, scan.line)
  /\ ~HeaderLine(Trim(scan.line)) /\ ~ListEntryLine(Trim(scan.line))
  /\ scan.st.items = WithContinuation(scan.prev.items, Trim(scan.line))
  /\ Len(SplitLines(scan.st.items[Len(scan.st.items)].text)) = 3

---------------------------------------------------------------------------
(* kanban-core.ts: parseColumnDefinition on declarations that end with a   *)
(* `(N)` and a `{#...}` token, well-formed or not.  In this specification   *)
(* source is the declaration and parsed the ColumnDefinition returned.  A   *)
(* limit of more digits than a finite Number has (over 308) is out of the   *)
(* texts drawn.                                                            *)

MaxHexDigits == 9

DeclaredNames == {<<"D", "o", "i", "n", "g">>, <<"I", "n", " ", "r", "e", "v", "i", "e", "w">>, <<>>}

LimitTokens == {<<>>, <<" ", "(", "3", ")">>, <<"(", "1", "2", ")">>, <<" ", "(", "x", ")">>, <<" ", "(", "1", ".", "5", ")">>, <<" ", "(", "-", "1", ")">>, <<" ", "(", ")">>}

RECURSIVE HexDigits(_)
HexDigits(n) ==
  IF n = 0 THEN <<>>
  ELSE HexDigits(n - 1) \o <<(<<"f", "A", "0", "9", "c", "E", "1", "b", "7", "d">>)[n]>>

ColorTokens ==
  {<<>>, <<" ", "{", "#", "g", "g", "g", "}">>, <<" ", "{", "f", "f", "f", "}">>}
    \cup {<<" ", "{", "#">> \o HexDigits(n) \o <<"}">> : n \in 2..MaxHexDigits}

Declarations ==
  {name \o limit \o color :
     name \in DeclaredNames, limit \in LimitTokens, color \in ColorTokens}

InitDefine ==
  /\ source \in Declarations
  /\ ppc = "declared"
  /\ parsed = <<>> /\ serialized = <<>> /\ reparsed = <<>> /\ scan = Idle
  /\ IdleMove /\ IdlePayload /\ IdleEdit /\ IdleQueue

\* parseColumnDefinition(source)
Define ==
  /\ ppc = "declared"
  /\ parsed' = parseColumnDefinition(source)
  /\ ppc' = "defined"
  /\ UNCHANGED <<source, serialized, reparsed, scan,
                 moveVars, payloadVars, editVars, queueVars>>

SpecDefine == InitDefine /\ [][Define]_vars

\* the `{#...}` token a trimmed declaration ends with: from its last "{#" on,
\* when hex digits and a closing "}" follow; <<>> when it ends with none
TrailingColorToken(s) ==
  LET opens == {q \in 1..(Len(s) - 2) :
                  /\ s[q] = "{" /\ s[q + 1] = "#" /\ s[Len(s)] = "}"
                  /\ \A i \in (q + 2)..(Len(s) - 1) : IsHexDigit(s[i])}
  IN  IF opens = {} THEN <<>> ELSE SubSeq(s, Max(opens), Len(s))

\* the `(...)` token a trimmed declaration ends with, <<>> when it ends with none
TrailingLimitToken(s) ==
  LET opens == {q \in 1..(Len(s) - 1) : s[q] = "(" /\ s[Len(s)] = ")"}
  IN  IF opens = {} THEN <<>> ELSE SubSeq(s, Max(opens), Len(s))

\* the token's N is one or more decimal digits
LimitTokenValid(token) ==
  Len(token) >= 3 /\ \A i \in 2..(Len(token) - 1) : IsDigit(token[i])

\* C19: when the `{#...}` token a declaration ends with has a hex-digit count
\* other than 3, 6 or 8, parseColumnDefinition sets no color and the token stays
\* part of baseName; when its `(N)` token is not an integer, no wipLimit is set
\* and the token stays part of baseName.
C19_InvalidTokenStaysInName ==
  ppc = "defined" =>
    LET Tokens(s, color, limit) ==
          /\ (color # <<>> /\ Len(color) - 3 \notin {3, 6, 8}) =>
               (parsed.color = <<>> /\ EndsWith(parsed.baseName, color))
          /\ (limit # <<>> /\ ~LimitTokenValid(limit)) =>
               (parsed.wipLimit = <<>> /\ EndsWith(parsed.baseName, limit))
    IN  Tokens(Trim(source), TrailingColorToken(Trim(source)),
               TrailingLimitToken(Trim(source)))

---------------------------------------------------------------------------
(* kanban-core.ts: the columns of a text that declares none.               *)

\* the board has one column per distinct status key, in the order of the first
\* item that uses each
OneColumnPerStatus(keys, columns) ==
  LET Firsts(firsts) ==
        /\ Len(columns) = Cardinality(firsts)
        /\ \A i \in firsts :
             normalizeColumnKey(columns[Cardinality({j \in firsts : j <= i})].rawName)
               = keys[i]
  IN  Firsts({i \in 1..Len(keys) : \A j \in 1..(i - 1) : keys[j] # keys[i]})

ColumnsInferred(defs, items, columns) ==
  /\ ppc = "parsed"
  /\ Len(columns) >= 1
  /\ (defs = <<>> /\ items = <<>>) =>
       (Len(columns) = 1 /\ columns[1].name = DEFAULT_COLUMN /\ columns[1].items = <<>>)
  /\ (defs = <<>> /\ items # <<>>) =>
       OneColumnPerStatus([i \in 1..Len(items) |-> normalizeColumnKey(items[i].status)],
                          columns)

\* C20: when the text declares no column, the board has one column per distinct
\* normalized item status, in the order of first use; with neither declarations
\* nor items it has the one column `Uncategorized`, without items.  In every case
\* the board has at least one column.
C20_ColumnsInferred ==
  ppc \in {"parsed", "threw"} =>
    LET Src(scanned) == ColumnsInferred(scanned.defs, scanned.items, parsed)
    IN  Src(Scanned(source))

---------------------------------------------------------------------------
(* kanban-core.ts: the order and the keys of the columns of a parsed board. *)

MaxOrderDeclarations == 2
MaxOrderEntries == 2

OrderDeclarationPool ==
  {<<" ", " ", "-", " ", "D", "o", "i", "n", "g">>, <<" ", " ", "-", " ", "d", "o", "i", "n", "g", " ", "(", "5", ")", " ", "{", "#", "0", "f", "0", "}">>, <<" ", " ", "-", " ", "D", "o", "n", "e", " ", "{", "#", "F", "0", "0", "}">>, <<" ", " ", "-", " ", "c", "o", "n", "s", "t", "r", "u", "c", "t", "o", "r">>}

OrderEntryPool ==
  {<<" ", " ", "-", " ", "[", "D", "o", "i", "n", "g", "]", " ", "x">>,
   <<" ", " ", "-", " ", "[", "L", "a", "t", "e", "r", "]", " ", "z">>,
   <<" ", " ", "-", " ", "d", "o", "n", "e", " ", "(", "2", ")", ":", " ", "w">>,
   <<" ", " ", "-", " ", "[", "c", "o", "n", "s", "t", "r", "u", "c", "t", "o", "r", "]", " ", "v">>,
   <<" ", " ", "-", " ", "t">>}

OrderSources ==
  {JoinLines(<<ColumnsWord>> \o ds \o <<ItemsWord>> \o es) :
     ds \in LineSeqs(OrderDeclarationPool, MaxOrderDeclarations),
     es \in LineSeqs(OrderEntryPool, MaxOrderEntries)}

InitOrder ==
  /\ source \in OrderSources
  /\ ppc = "start"
  /\ parsed = <<>> /\ serialized = <<>> /\ reparsed = <<>> /\ scan = Idle
  /\ IdleMove /\ IdlePayload /\ IdleEdit /\ IdleQueue

SpecOrder == InitOrder /\ [][NextParse]_vars

\* the first place of key in keys, 0 when it is not among them
FirstPlace(keys, key) ==
  LET hits == {i \in 1..Len(keys) : keys[i] = key}
  IN  IF hits = {} THEN 0 ELSE Min(hits)

\* names are the columns' trimmed, lower-cased names; declared and used are the
\* keys of the declarations and of the item statuses, in source order
ColumnsInOrder(names, declared, used) ==
  /\ \A c, d \in 1..Len(names) : names[c] = names[d] => c = d
  /\ \A c, d \in 1..Len(names) :
       c < d =>
         LET Places(pc, pd, uc, ud) ==
               /\ pd # 0 => (pc # 0 /\ pc < pd)
               /\ (pc = 0 /\ pd = 0 /\ uc # 0 /\ ud # 0) => uc < ud
         IN  Places(FirstPlace(declared, names[c]), FirstPlace(declared, names[d]),
                    FirstPlace(used, names[c]), FirstPlace(used, names[d]))

\* C21: in every board parseKanbanSource returns, no two columns have the same
\* normalized key (trimmed, lower-cased name), the declared columns are in the
\* order of their first declarations, and the columns created for undeclared item
\* statuses come after all declared ones, in the order of first use.
C21_ColumnsUniqueInOrder ==
  ppc = "parsed" =>
    LET Src(scanned) ==
          ColumnsInOrder([c \in 1..Len(parsed) |-> normalizeKey(parsed[c].name)],
                         DeclarationKeys(scanned.defs),
                         [i \in 1..Len(scanned.items) |->
                            normalizeColumnKey(scanned.items[i].status)])
    IN  Src(Scanned(source))

\* a key declared twice gave one column, and two columns were created after it
\* for statuses no declaration has
C21_Witness ==
  /\ ppc = "parsed" /\ Len(parsed) = 3
  /\ Len(Scanned(source).defs) = 2
  /\ normalizeKey(parsed[1].name) = <<"d", "o", "i", "n", "g">>
  /\ parsed[2].items # <<>> /\ parsed[3].items # <<>>


---------------------------------------------------------------------------
(* The edit handlers of renderKanbanBoard on the objects they share.  A    *)
(* board is a columns array of column objects, each holding an items       *)
(* array; heap keeps the three kinds of object by address (an index), so   *)
(* that a handler writing through one reference is seen through every      *)
(* other reference to the same object.                                     *)

\* most handlers run one after another, each on the board the one before rendered
MaxHandlers == 2

\* the column object nextBoard.columns[i] and its items array, by address
ColumnAt(h, b, i) == h.boards[b][i + 1]
ItemsAt(h, b, i)  == h.columns[h.boards[b][i + 1]].items

\* the board at address b as a value: what a reader of its objects sees
DerefBoard(h, b) ==
  [i \in 1..Len(h.boards[b]) |->
     [h.columns[h.boards[b][i]] EXCEPT !.items = h.items[@]]]

\* the objects of a board as parseKanbanSource returns it, rendered at address 1
AllocBoard(columns) ==
  [items   |-> [i \in 1..Len(columns) |-> columns[i].items],
   columns |-> [i \in 1..Len(columns) |-> [columns[i] EXCEPT !.items = i]],
   boards  |-> << [i \in 1..Len(columns) |-> i] >>,
   shown   |-> 1,
   prev    |-> 1]

\* cloneBoard copying the columns but not their items arrays (items: column.items)
cloneBoardSharedItems(h, b) ==
  [h EXCEPT
     !.columns = @ \o [i \in 1..Len(h.boards[b]) |-> h.columns[h.boards[b][i]]],
     !.boards  = Append(@, [i \in 1..Len(h.boards[b]) |-> Len(h.columns) + i])]

\* cloneBoard on the heap: a new columns array, a new object per column and a new
\* items array per column ([...column.items]); the clone is the last board
cloneBoardOnHeap(h, b) ==
  [h EXCEPT
     !.items   = @ \o [i \in 1..Len(h.boards[b]) |->
                         h.items[h.columns[h.boards[b][i]].items]],
     !.columns = @ \o [i \in 1..Len(h.boards[b]) |->
                         [h.columns[h.boards[b][i]] EXCEPT !.items = Len(h.items) + i]],
     !.boards  = Append(@, [i \in 1..Len(h.boards[b]) |-> Len(h.columns) + i])]

\* moveCard(board, ...) splices the items arrays of two columns of the board in place
moveCardOnHeap(h, b, fromColumnIndex, fromItemIndex, toColumnIndex, toItemIndex) ==
  LET Store(columns) ==
        [h EXCEPT !.items =
           [a \in 1..Len(h.items) |->
              LET at == {i \in 1..Len(h.boards[b]) : h.columns[h.boards[b][i]].items = a}
              IN  IF at = {} THEN h.items[a] ELSE columns[CHOOSE i \in at : TRUE].items]]
  IN  Store(moveCard(DerefBoard(h, b), fromColumnIndex, fromItemIndex,
                     toColumnIndex, toItemIndex))

\* moveColumn(board, ...) splices the columns array of the board in place
moveColumnOnHeap(h, b, fromIndex, toIndex) ==
  [h EXCEPT !.boards[b] = moveColumn(@, fromIndex, toIndex)]

\* updateAndRerender(nextBoard): the write is enqueued and nextBoard is rendered
Rerendered(h, call, payload) ==
  [heap |-> [h EXCEPT !.prev = h.shown, !.shown = Len(h.boards)],
   call |-> call, payload |-> payload, wrote |-> TRUE]

\* a return before updateAndRerender: the rendered board stays
Returned(h) ==
  [heap |-> [h EXCEPT !.prev = h.shown],
   call |-> "none", payload |-> <<>>, wrote |-> FALSE]

\* buildColumnRawName (main.ts 273-287); wipLimit is <<n>>, or <<>> for undefined
buildColumnRawName(baseName, wipLimit, color) ==
  LET Colored(rawName) ==
        IF color # <<>> THEN rawName \o <<" ", "{">> \o color \o <<"}">> ELSE rawName
      Limited(safeName) ==
        Colored(IF wipLimit # <<>>
                THEN safeName \o <<" ", "(">> \o NumberToString(wipLimit[1]) \o <<")">>
                ELSE safeName)
  IN  Limited(OrElse(Trim(baseName), DEFAULT_COLUMN))

\* where /@\d{4}-\d{2}-\d{2}/ first matches in text, or 0
DateTokenStart(text) ==
  LET Digits(p, n) == \A j \in p..(p + n - 1) : IsDigit(text[j])
      hits == {p \in 1..(Len(text) - 10) :
                 /\ text[p] = "@" /\ Digits(p + 1, 4) /\ text[p + 5] = "-"
                 /\ Digits(p + 6, 2) /\ text[p + 8] = "-" /\ Digits(p + 9, 2)}
  IN  IF hits = {} THEN 0 ELSE Min(hits)

\* the length of the match of /@@\d{1,2}:\d{2}/ at p, or 0: two digits are tried
\* before one
TimeTokenLength(text, p) ==
  LET Is(j, c)  == j <= Len(text) /\ text[j] = c
      Digit(j)  == j <= Len(text) /\ IsDigit(text[j])
      Rest(j)   == Is(j, ":") /\ Digit(j + 1) /\ Digit(j + 2)
  IN  IF ~(Is(p, "@") /\ Is(p + 1, "@") /\ Digit(p + 2)) THEN 0
      ELSE IF Digit(p + 3) /\ Rest(p + 4) THEN 7
      ELSE IF Rest(p + 3) THEN 6
      ELSE 0

\* where /@@\d{1,2}:\d{2}/ first matches in text, or 0
TimeTokenStart(text) ==
  LET hits == {p \in 1..Len(text) : TimeTokenLength(text, p) > 0}
  IN  IF hits = {} THEN 0 ELSE Min(hits)

\* applyCardDateTime (main.ts 724-748): the first date token is replaced, or the
\* token is added at the end; the same for the time when setTime and time are set
applyCardDateTime(text, date, time, setTime) ==
  LET Timed(next, q) ==
        IF ~(setTime /\ time # <<>>) THEN next
        ELSE IF q # 0
        THEN SubSeq(next, 1, q - 1) \o <<"@", "@">> \o time
               \o SubSeq(next, q + TimeTokenLength(next, q), Len(next))
        ELSE Trim(next \o <<" ", "@", "@">> \o time)
      Dated(next) == Timed(next, TimeTokenStart(next))
      Start(next, p) ==
        Dated(IF p # 0
              THEN SubSeq(next, 1, p - 1) \o <<"@">> \o date \o SubSeq(next, p + 11, Len(next))
              ELSE Trim(next \o <<" ", "@">> \o date))
      Trimmed(next) == Start(next, DateTokenStart(next))
  IN  Trimmed(Trim(text))

\* the index a payload number stands for (numbers are kept in tenths)
PayloadIndex(num) == num \div 10

\* readCardDragPayload / readColumnDragPayload (main.ts 1671-1698): the data of
\* the plugin's own type, or else the text/plain data
readCardDragPayload(event) == parseCardDragPayload(OrElse(event.card, event.plain))

readColumnDragPayload(event) == parseColumnDragPayload(OrElse(event.column, event.plain))

\* handleColumnDropEvent (main.ts 898-916); insertIndex is getColumnDropInfo at
\* the pointer
handleColumnDropEvent(h, event, insertIndex) ==
  LET Moved(c, payload) ==
        Rerendered(moveColumnOnHeap(c, Len(c.boards),
                                    PayloadIndex(payload.columnIndex), insertIndex),
                   "moveColumn", payload)
      Decoded(p) ==
        IF p.isNull THEN [handled |-> FALSE, result |-> Returned(h)]
        ELSE IF ~isValidColumnIndex(DerefBoard(h, h.shown),
                                    PayloadIndex(p.payload.columnIndex))
        THEN [handled |-> TRUE, result |-> Returned(h)]
        ELSE [handled |-> TRUE,
              result |-> Moved(cloneBoardOnHeap(h, h.shown), p.payload)]
  IN  Decoded(readColumnDragPayload(event))

\* the card payload branch without the test isValidItemIndex
dropCardUnchecked(h, event, toColumnIndex, toItemIndex) ==
  LET Moved(c, payload) ==
        Rerendered(
          moveCardOnHeap(c, Len(c.boards), PayloadIndex(payload.columnIndex),
                         PayloadIndex(payload.itemIndex), toColumnIndex,
                         IF toItemIndex = -1
                         THEN Len(c.items[ItemsAt(c, Len(c.boards), toColumnIndex)])
                         ELSE toItemIndex),
          "moveCard", payload)
      Decoded(p) ==
        IF p.isNull THEN Returned(h)
        ELSE IF toColumnIndex = -1 THEN Returned(h)
        ELSE Moved(cloneBoardOnHeap(h, h.shown), p.payload)
  IN  Decoded(readCardDragPayload(event))

\* what the three drop handlers do with a card payload: the payload is checked
\* against the rendered board, then moveCard runs on a clone; toItemIndex = -1
\* stands for the end of the target column
dropCard(h, event, toColumnIndex, toItemIndex) ==
  LET Moved(c, payload) ==
        Rerendered(
          moveCardOnHeap(c, Len(c.boards), PayloadIndex(payload.columnIndex),
                         PayloadIndex(payload.itemIndex), toColumnIndex,
                         IF toItemIndex = -1
                         THEN Len(c.items[ItemsAt(c, Len(c.boards), toColumnIndex)])
                         ELSE toItemIndex),
          "moveCard", payload)
      Decoded(p) ==
        IF p.isNull THEN Returned(h)
        ELSE IF ~isValidItemIndex(DerefBoard(h, h.shown),
                                  PayloadIndex(p.payload.columnIndex),
                                  PayloadIndex(p.payload.itemIndex))
        THEN Returned(h)
        ELSE IF toColumnIndex = -1 THEN Returned(h)
        ELSE Moved(cloneBoardOnHeap(h, h.shown), p.payload)
  IN  Decoded(readCardDragPayload(event))

\* a drop handler: handleColumnDropEvent first, the card payload when it did
\* not handle the event
dropHandler(h, event, insertIndex, toColumnIndex, toItemIndex) ==
  LET First(r) ==
        IF r.handled THEN r.result ELSE dropCard(h, event, toColumnIndex, toItemIndex)
  IN  First(handleColumnDropEvent(h, event, insertIndex))

\* the edits behind the prompts, each on a clone of the rendered board
\* add card (main.ts 1377-1391)
addCard(h, columnIndex, text) ==
  LET Pushed(c, value) ==
        Rerendered([c EXCEPT !.items[ItemsAt(c, Len(c.boards), columnIndex)] =
                      Append(@, value)], "none", <<>>)
      Value(value) ==
        IF value = <<>> THEN Returned(h) ELSE Pushed(cloneBoardOnHeap(h, h.shown), value)
  IN  Value(Trim(text))

\* a new column object and its new items array added to the heap, the column put
\* at place i of the columns array of board b (a push when i is past the end)
StoreColumn(h, b, i, column, items) ==
  [h EXCEPT
     !.items     = Append(@, items),
     !.columns   = Append(@, [column EXCEPT !.items = Len(h.items) + 1]),
     !.boards[b] = IF i < Len(@) THEN [@ EXCEPT ![i + 1] = Len(h.columns) + 1]
                   ELSE Append(@, Len(h.columns) + 1)]

\* add column (main.ts 1213-1232)
addColumn(h, text) ==
  LET Pushed(c, definition) ==
        IF \E i \in 1..Len(c.boards[Len(c.boards)]) :
             normalizeColumnKey(c.columns[c.boards[Len(c.boards)][i]].rawName)
               = normalizeColumnKey(definition.rawName)
        THEN Returned(c)
        ELSE Rerendered(StoreColumn(c, Len(c.boards), Len(c.boards[Len(c.boards)]),
                                    createColumnFromDefinition(definition), <<>>),
                        "none", <<>>)
      Name(name) ==
        IF name = <<>> THEN Returned(h)
        ELSE Pushed(cloneBoardOnHeap(h, h.shown), parseColumnDefinition(name))
  IN  Name(Trim(text))

\* rename column (main.ts 1265-1294)
renameColumn(h, columnIndex, text) ==
  LET Renamed(c, definition) ==
        IF \E i \in 1..Len(c.boards[Len(c.boards)]) :
             /\ i # columnIndex + 1
             /\ normalizeColumnKey(c.columns[c.boards[Len(c.boards)][i]].rawName)
                  = normalizeColumnKey(definition.rawName)
        THEN Returned(c)
        ELSE Rerendered(StoreColumn(c, Len(c.boards), columnIndex,
                                    createColumnFromDefinition(definition),
                                    c.items[ItemsAt(c, Len(c.boards), columnIndex)]),
                        "none", <<>>)
      Name(name) ==
        IF name = <<>> THEN Returned(h)
        ELSE Renamed(cloneBoardOnHeap(h, h.shown), parseColumnDefinition(name))
  IN  Name(Trim(text))

\* set column color (main.ts 1297-1321)
setColumnColor(h, columnIndex, value) ==
  LET Target(target, nextColor) ==
        [target EXCEPT !.color = nextColor,
                       !.rawName = buildColumnRawName(target.name, target.wipLimit,
                                                      nextColor)]
      Colored(c, nextColor) ==
        Rerendered([c EXCEPT !.columns[ColumnAt(c, Len(c.boards), columnIndex)] =
                      Target(@, nextColor)], "none", <<>>)
      Color(nextColor) ==
        IF nextColor = <<>> THEN Returned(h)
        ELSE Colored(cloneBoardOnHeap(h, h.shown), nextColor)
  IN  Color(normalizeHexColor(value))

\* rename card (main.ts 1488-1496)
renameCard(h, columnIndex, itemIndex, text) ==
  LET Renamed(c, name) ==
        IF c.items[ItemsAt(c, Len(c.boards), columnIndex)][itemIndex + 1] = <<>>
        THEN Returned(c)
        ELSE Rerendered([c EXCEPT !.items[ItemsAt(c, Len(c.boards), columnIndex)]
                                          [itemIndex + 1] = name], "none", <<>>)
      Name(name) ==
        IF name = <<>> THEN Returned(h) ELSE Renamed(cloneBoardOnHeap(h, h.shown), name)
  IN  Name(Trim(text))

\* set card date, set card date & time (main.ts 1500-1545)
setCardDate(h, columnIndex, itemIndex, nextDate, nextTime, setTime) ==
  LET Dated(c) ==
        IF c.items[ItemsAt(c, Len(c.boards), columnIndex)][itemIndex + 1] = <<>>
        THEN Returned(c)
        ELSE Rerendered([c EXCEPT !.items[ItemsAt(c, Len(c.boards), columnIndex)]
                                          [itemIndex + 1] =
                           applyCardDateTime(@, nextDate, nextTime, setTime)],
                        "none", <<>>)
  IN  Dated(cloneBoardOnHeap(h, h.shown))

\* remove card (main.ts 1546-1554)
removeCard(h, columnIndex, itemIndex) ==
  LET Removed(c) ==
        IF c.items[ItemsAt(c, Len(c.boards), columnIndex)][itemIndex + 1] = <<>>
        THEN Returned(c)
        ELSE Rerendered([c EXCEPT !.items[ItemsAt(c, Len(c.boards), columnIndex)] =
                           SpliceDelete(@, itemIndex)], "none", <<>>)
  IN  Removed(cloneBoardOnHeap(h, h.shown))

\* the board rendered first: a card in Todo and a card in Done
HandlerBoards ==
  {[BoardColumns EXCEPT ![1].items = <<<<"x">>>>, ![3].items = <<<<"y">>>>]}

CardPayloadText(c, k) ==
  <<Tok("{"), TStr("columnIndex"), Tok(":"), TNum(c), Tok(","),
    TStr("itemIndex"), Tok(":"), TNum(k), Tok("}")>>

ColumnPayloadText(c) == <<Tok("{"), TStr("columnIndex"), Tok(":"), TNum(c), Tok("}")>>

\* the payloads dragged, numbers in tenths: cards (0, 0), (0, 1), (2, 0), cards
\* with an index past the end, negative or fractional, columns 0, 2, 3, -1 and
\* 1.5, and JSON that is no object
DropPayloads ==
  {CardPayloadText(n[1], n[2]) :
     n \in {<<0, 0>>, <<0, 10>>, <<20, 0>>, <<30, 0>>, <<0, 30>>, <<-10, 0>>, <<0, 15>>}}
    \cup {ColumnPayloadText(c) : c \in {0, 20, 30, -10, 15}}
    \cup {<<Tok("null")>>, <<TStr("1")>>}

\* the text/plain data the plugin's own drags carry ("inline-kanban-card"): no JSON
PlainMarker == <<Tok("bad")>>

\* a drag started on a card or on a column of the plugin, and a drag from
\* elsewhere that carries text only
DropEvents ==
  {[card |-> p, column |-> <<>>, plain |-> PlainMarker] : p \in DropPayloads}
    \cup {[card |-> <<>>, column |-> p, plain |-> PlainMarker] : p \in DropPayloads}
    \cup {[card |-> <<>>, column |-> <<>>, plain |-> p] : p \in DropPayloads \cup {<<>>}}

CardTexts   == {<<" ", "z", " ">>, <<" ">>}
ColumnTexts == {<<"L", "a", "t", "e", "r", " ", "(", "3", ")">>, <<"d", "o", "n", "e">>, <<" ">>}
ColorTexts  == {<<"#", "F", "0", "0">>, <<"r", "e", "d">>}
DateText    == <<"2", "0", "2", "6", "-", "0", "1", "-", "0", "2">>
TimeTexts   == {<<"9", ":", "3", "0">>, <<>>}

InitHandlers ==
  /\ board \in HandlerBoards
  /\ heap = AllocBoard(board)
  /\ lastOp = [op |-> "none", call |-> "none", payload |-> <<>>, wrote |-> FALSE,
               count |-> 0]
  /\ IdlePayload /\ IdleParse /\ IdleEdit /\ IdleQueue

\* a handler of the rendered board ran: board keeps what the rendered board was
\* when the handler started
Handled(op, r) ==
  /\ board' = DerefBoard(heap, heap.shown)
  /\ heap' = r.heap
  /\ lastOp' = [op |-> op, call |-> r.call, payload |-> r.payload, wrote |-> r.wrote,
                count |-> lastOp.count + 1]
  /\ UNCHANGED <<payloadVars, parseVars, editVars, queueVars>>

\* the columns and the cards the rendered board shows
ShownColumns == 0..(Len(heap.boards[heap.shown]) - 1)
ShownItems(c) == 0..(Len(heap.items[ItemsAt(heap, heap.shown, c)]) - 1)
\* the places getColumnDropInfo can name; the place is read for a column payload only
InsertPlaces(event) ==
  IF readColumnDragPayload(event).isNull THEN {0} ELSE 0..Len(heap.boards[heap.shown])

\* drop on a card (main.ts 1635-1661), before or after it
DropOnCard(event, insertIndex, columnIndex, itemIndex, isAfter) ==
  /\ lastOp.count < MaxHandlers
  /\ \E r \in {dropHandler(heap, event, insertIndex, columnIndex,
                           IF isAfter THEN itemIndex + 1 ELSE itemIndex)} :
       Handled("dropOnCard", r)

\* drop on a column (handleColumnDrop, main.ts 1420-1443): the card goes to its end
DropOnColumn(event, insertIndex, columnIndex) ==
  /\ lastOp.count < MaxHandlers
  /\ \E r \in {dropHandler(heap, event, insertIndex, columnIndex, -1)} :
       Handled("dropOnColumn", r)

\* drop on the board (main.ts 1177-1206): the card goes to the end of the column
\* under the pointer; columnAtX = -1 when getColumnIndexAtX finds none
DropOnBoard(event, insertIndex, columnAtX) ==
  /\ lastOp.count < MaxHandlers
  /\ \E r \in {dropHandler(heap, event, insertIndex, columnAtX, -1)} :
       Handled("dropOnBoard", r)

AddCard(columnIndex, text) ==
  /\ lastOp.count < MaxHandlers
  /\ \E r \in {addCard(heap, columnIndex, text)} : Handled("addCard", r)

AddColumn(text) ==
  /\ lastOp.count < MaxHandlers
  /\ \E r \in {addColumn(heap, text)} : Handled("addColumn", r)

RenameColumn(columnIndex, text) ==
  /\ lastOp.count < MaxHandlers
  /\ \E r \in {renameColumn(heap, columnIndex, text)} : Handled("renameColumn", r)

SetColumnColor(columnIndex, value) ==
  /\ lastOp.count < MaxHandlers
  /\ \E r \in {setColumnColor(heap, columnIndex, value)} : Handled("setColumnColor", r)

RenameCard(columnIndex, itemIndex, text) ==
  /\ lastOp.count < MaxHandlers
  /\ \E r \in {renameCard(heap, columnIndex, itemIndex, text)} : Handled("renameCard", r)

SetCardDate(columnIndex, itemIndex, nextTime, setTime) ==
  /\ lastOp.count < MaxHandlers
  /\ \E r \in {setCardDate(heap, columnIndex, itemIndex, DateText, nextTime, setTime)} :
       Handled("setCardDate", r)

RemoveCard(columnIndex, itemIndex) ==
  /\ lastOp.count < MaxHandlers
  /\ \E r \in {removeCard(heap, columnIndex, itemIndex)} : Handled("removeCard", r)

NextHandlers ==
  \/ \E event \in DropEvents, c \in ShownColumns :
       \E at \in InsertPlaces(event), k \in ShownItems(c), isAfter \in BOOLEAN :
         DropOnCard(event, at, c, k, isAfter)
  \/ \E event \in DropEvents, c \in ShownColumns :
       \E at \in InsertPlaces(event) : DropOnColumn(event, at, c)
  \/ \E event \in DropEvents, c \in ShownColumns \cup {-1} :
       \E at \in InsertPlaces(event) : DropOnBoard(event, at, c)
  \/ \E c \in ShownColumns, text \in CardTexts : AddCard(c, text)
  \/ \E text \in ColumnTexts : AddColumn(text)
  \/ \E c \in ShownColumns, text \in ColumnTexts : RenameColumn(c, text)
  \/ \E c \in ShownColumns, value \in ColorTexts : SetColumnColor(c, value)
  \/ \E c \in ShownColumns : \E k \in ShownItems(c), text \in CardTexts :
       RenameCard(c, k, text)
  \/ \E c \in ShownColumns : \E k \in ShownItems(c), time \in TimeTexts :
       SetCardDate(c, k, time, time # <<>>)
  \/ \E c \in ShownColumns : \E k \in ShownItems(c) : RemoveCard(c, k)

SpecHandlers == InitHandlers /\ [][NextHandlers]_vars

\* C22: after an edit handler ran, the board that was rendered when it started
\* still has the columns, in their order, with the fields and the items it had
C22_RenderedBoardUntouched ==
  lastOp.op # "none" => DerefBoard(heap, heap.prev) = board

\* a handler changed its clone and rendered it: the board shown now differs from
\* the one shown before
C22_Witness ==
  /\ lastOp.wrote
  /\ heap.shown # heap.prev
  /\ DerefBoard(heap, heap.shown) # DerefBoard(heap, heap.prev)

---------------------------------------------------------------------------
(* The status name of a column and the order of the items.                 *)

\* most column declarations and most items of a source of this section
MaxStatusDeclarations == 1
MaxStatusEntries == 2

StatusDeclarationPool ==
  {<<"-", " ", "D", "o", "n", "e", " ", "{", "#", "F", "0", "0", "}">>,
   <<"-", " ", "D", "o", "i", "n", "g">>}

\* items that name a column by its name, by its declaration, and by two other
\* declarations of one name
StatusEntryPool ==
  {<<"-", " ", "[", "D", "o", "n", "e", "]", " ", "x">>,
   <<"-", " ", "d", "o", "n", "e", " ", "{", "#", "f", "0", "0", "}", ":", " ", "w">>,
   <<"-", " ", "[", "L", "a", "t", "e", "r", " ", "(", "3", ")", "]", " ", "z">>,
   <<"-", " ", "l", "a", "t", "e", "r", " ", "(", "5", ")", ":", " ", "u">>}

StatusSources ==
  {JoinLines(<<ColumnsWord>> \o ds \o <<ItemsWord>> \o es) :
     ds \in LineSeqs(StatusDeclarationPool, MaxStatusDeclarations),
     es \in LineSeqs(StatusEntryPool, MaxStatusEntries)}

InitStatus ==
  /\ source \in StatusSources
  /\ ppc = "start"
  /\ parsed = <<>> /\ serialized = <<>> /\ reparsed = <<>> /\ scan = Idle
  /\ IdleMove /\ IdlePayload /\ IdleEdit /\ IdleQueue

SpecStatus == InitStatus /\ [][NextParse]_vars

\* the statuses, trimmed and in lower case, of the items assigned to the column
\* with the key
StatusesOfKey(items, key) ==
  {normalizeKey(items[i].status) :
     i \in {j \in 1..Len(items) : normalizeColumnKey(items[j].status) = key}}

\* an item of the column names its rawName and none names its name
RawNameUsedAlone(column, statuses) ==
  normalizeKey(column.rawName) \in statuses /\ normalizeKey(column.name) \notin statuses

\* statusName is rawName in that case and name in every other; where the two
\* differ, statusName is rawName in that case only
StatusNameAsCounted(columns, items) ==
  \A c \in 1..Len(columns) :
    LET Column(column, alone) ==
          /\ column.statusName = IF alone THEN column.rawName ELSE column.name
          /\ column.rawName # column.name => (column.statusName = column.rawName <=> alone)
    IN  Column(columns[c],
               RawNameUsedAlone(columns[c],
                                StatusesOfKey(items, normalizeKey(columns[c].name))))

\* the source with its item lines, the lines below the items: header, in the
\* order p (a permutation of their places)
ItemLinesPermuted(src, p) ==
  LET Lines(lines, h) ==
        JoinLines(SubSeq(lines, 1, h)
                    \o [i \in 1..(Len(lines) - h) |-> lines[h + p[i]]])
      Header(lines) == Lines(lines, CHOOSE h \in 1..Len(lines) : lines[h] = ItemsWord)
  IN  Header(SplitLines(src))

\* the number of item lines of the source
ItemLineCount(src) ==
  LET Header(lines) == Len(lines) - (CHOOSE h \in 1..Len(lines) : lines[h] = ItemsWord)
  IN  Header(SplitLines(src))

\* the columns among those with a key in keys have the statusName they have in
\* the board parsed from the source with its item lines in any other order
SameStatusNameInAnyOrder(src, columns, keys) ==
  \A p \in Permutations(1..ItemLineCount(src)) :
    LET Other(b) ==
          ~b.threw =>
            \A c \in 1..Len(columns), d \in 1..Len(b.columns) :
              /\ normalizeKey(columns[c].name) \in keys
              /\ normalizeKey(b.columns[d].name) = normalizeKey(columns[c].name)
              => b.columns[d].statusName = columns[c].statusName
    IN  Other(parseKanbanSource(ItemLinesPermuted(src, p)))

KeysOf(columns) == {normalizeKey(columns[c].name) : c \in 1..Len(columns)}

\* C23 as stated: the status name follows the counts, and it is the same for
\* every order of the items, for every column of the board
C23_StatusNameAnyOrder ==
  ppc = "parsed" =>
    /\ StatusNameAsCounted(parsed, Scanned(source).items)
    /\ SameStatusNameInAnyOrder(source, parsed, KeysOf(parsed))

\* C23, amended: the status name follows the counts for every column of the
\* board, and it is the same for every order of the items for every column that
\* the columns section declares
C23_StatusNameDeclaredAnyOrder ==
  ppc = "parsed" =>
    LET Src(scanned) ==
          /\ StatusNameAsCounted(parsed, scanned.items)
          /\ SameStatusNameInAnyOrder(
               source, parsed,
               {DeclarationKeys(scanned.defs)[i] : i \in 1..Len(scanned.defs)})
    IN  Src(Scanned(source))

\* a declared column with a limit or a color got its rawName as status name,
\* from two items
C23_Witness ==
  /\ ppc = "parsed"
  /\ Len(Scanned(source).defs) >= 1
  /\ \E c \in 1..Len(parsed) :
       /\ parsed[c].rawName # parsed[c].name
       /\ parsed[c].statusName = parsed[c].rawName
       /\ Len(parsed[c].items) = 2
       /\ normalizeKey(parsed[c].name) = DeclarationKeys(Scanned(source).defs)[1]

DropHandlers == {"dropOnCard", "dropOnColumn", "dropOnBoard"}

\* columns[columnIndex] exists, and columns[columnIndex].items[itemIndex] exists
ColumnExists(columns, columnIndex) == columnIndex \in 0..(Len(columns) - 1)

ItemExists(columns, columnIndex, itemIndex) ==
  /\ ColumnExists(columns, columnIndex)
  /\ itemIndex \in 0..(Len(columns[columnIndex + 1].items) - 1)

---------------------------------------------------------------------------
(* The section of the line loop: sources with and without headers, in any  *)
(* order.                                                                  *)

\* most lines of a source of this section
MaxSectionLines == 4

\* an own-line and an inline columns header, an items header in capitals, two
\* list entries, and `items:` with text behind it, which is no header
SectionLinePool ==
  {<<"c", "o", "l", "u", "m", "n", "s", ":">>, <<"C", "o", "l", "u", "m", "n", "s", ":", " ", "A", ",", " ", "B">>, <<"I", "T", "E", "M", "S", ":">>, <<"-", " ", "D", "o", "i", "n", "g">>, <<"*", " ", "[", "D", "o", "i", "n", "g", "]", " ", "x">>,
   <<"i", "t", "e", "m", "s", ":", " ", "l", "a", "t", "e", "r">>}

SectionSources ==
  {JoinLines(ls) : ls \in LineSeqs(SectionLinePool, MaxSectionLines) \ {<<>>}}

InitSections ==
  /\ source \in SectionSources
  /\ ppc = "scanning"
  /\ \E st \in {[section |-> "none", defs |-> <<>>, items |-> <<>>]} :
       scan = [st |-> st, rest |-> SplitLines(source), prev |-> st, line |-> <<>>]
  /\ parsed = <<>> /\ serialized = <<>> /\ reparsed = <<>>
  /\ IdleMove /\ IdlePayload /\ IdleEdit /\ IdleQueue

SpecSections == InitSections /\ [][NextScan]_vars

\* the section a trimmed line opens: "columns" for `columns:` alone or with a
\* list behind it, "items" for `items:` alone, "none" for every other line
HeaderKind(line) ==
  LET Low(low) ==
        IF low = ColumnsWord \/ (StartsWith(low, ColumnsWord) /\ Len(low) > 8)
        THEN "columns"
        ELSE IF low = ItemsWord THEN "items" ELSE "none"
  IN  Low(ToLowerCase(line))

\* the section the latest header among the lines opens, "none" without a header
RECURSIVE LatestHeader(_)
LatestHeader(lines) ==
  IF lines = <<>> THEN "none"
  ELSE IF HeaderKind(Trim(lines[Len(lines)])) # "none"
    THEN HeaderKind(Trim(lines[Len(lines)]))
  ELSE LatestHeader(SubSeq(lines, 1, Len(lines) - 1))

\* the lines of the source read before the line the loop read last
ReadBefore(src, rest) ==
  LET Lines(lines) == SubSeq(lines, 1, Len(lines) - Len(rest) - 1)
  IN  Lines(SplitLines(src))

\* the text a list entry line holds behind its bullet
EntryOf(line) == Trim(SubSeq(line, 2, Len(line)))

\* what the round that read rawLine did, with latest the section of the latest
\* header before the line: the section changes on a header only; a list entry
\* is added at the end of the declarations or of the items, as that section
\* says, and to neither without a header
SectionDecides(prev, st, line, latest) ==
  /\ prev.section = latest
  /\ st.section # prev.section => HeaderKind(line) # "none"
  /\ HeaderKind(line) # "none" => st.section = HeaderKind(line)
  /\ ListEntryLine(line) /\ HeaderKind(line) = "none" =>
       /\ (st.defs = Append(prev.defs, parseColumnDefinition(EntryOf(line))))
            <=> latest = "columns"
       /\ (st.items = Append(prev.items, parseItemEntry(EntryOf(line))))
            <=> latest = "items"
       /\ latest # "columns" => st.defs = prev.defs
       /\ latest # "items" => st.items = prev.items

\* C25: the section changes on header lines only; a list entry is recorded as
\* a column declaration exactly when the latest header before it is a columns
\* header, as an item exactly when it is the items header, and not at all
\* without a header, each at the end of what was recorded before
C25_SectionDecides ==
  (ppc \in {"scanning", "scanned"} /\ Len(scan.rest) < Len(SplitLines(source))) =>
    SectionDecides(scan.prev, scan.st, Trim(scan.line),
                   LatestHeader(ReadBefore(source, scan.rest)))

\* after an items section with an item, a columns section was opened again and
\* a list entry was recorded as one more declaration
C25_Witness ==
  /\ ppc = "scanning"
  /\ Len(scan.rest) < Len(SplitLines(source))
  /\ scan.prev.items # <<>> /\ scan.prev.section = "columns"
  /\ ListEntryLine(Trim(scan.line))
  /\ Len(scan.st.defs) = Len(scan.prev.defs) + 1

---------------------------------------------------------------------------
(* Where moveColumn and moveCard put what they move.                       *)

\* seq without its element at index i (from 0)
Without(seq, i) == SubSeq(seq, 1, i) \o SubSeq(seq, i + 2, Len(seq))

Clamp(v, lo, hi) == IF v < lo THEN lo ELSE IF v > hi THEN hi ELSE v

\* after is before with the element at index from moved to index to, the
\* others in the order they had
MovedTo(before, after, from, to) ==
  /\ Len(after) = Len(before)
  /\ to \in 0..(Len(before) - 1)
  /\ after[to + 1] = before[from + 1]
  /\ Without(after, to) = Without(before, from)

\* what moveColumn(board, fromIndex, toIndex) is to do on n columns
ColumnMoved(before, after, fromIndex, toIndex) ==
  LET To(t) == MovedTo(before, after, fromIndex, IF fromIndex < t THEN t - 1 ELSE t)
  IN  IF fromIndex \in 0..(Len(before) - 1)
      THEN To(Clamp(toIndex, 0, Len(before)))
      ELSE after = before

\* C26: moveColumn puts the column at fromIndex at t - 1 when fromIndex < t and
\* at t otherwise, t being toIndex clamped into [0, n], keeps the order of the
\* other columns, and leaves the board as it is for a fromIndex outside [0, n)
C26_ColumnMoved ==
  [][\A from \in ColumnArgs, to \in ColumnArgs \cup {Len(BoardColumns) + 1} :
       MoveColumn(from, to) => ColumnMoved(board, board', from, to)]_vars

\* a column was moved to another place
C26_Witness ==
  /\ lastOp.op = "moveColumn"
  /\ board # lastOp.start

\* what moveCard(board, c, fromItem, c, toItem) is to do in a column of n items
\* for 0 <= fromItem < n: the card lands at toItem - 1 when fromItem < toItem and
\* at toItem otherwise, clamped into [0, n - 1]; the other columns stay
CardMovedInColumn(before, after, c, fromItem, toItem) ==
  /\ Len(after) = Len(before)
  /\ \A i \in 1..Len(before) : i # c + 1 => after[i] = before[i]
  /\ after[c + 1] = [before[c + 1] EXCEPT !.items = after[c + 1].items]
  /\ MovedTo(before[c + 1].items, after[c + 1].items, fromItem,
             Clamp(IF fromItem < toItem THEN toItem - 1 ELSE toItem,
                   0, Len(before[c + 1].items) - 1))
  /\ toItem \in {fromItem, fromItem + 1} => after = before

\* C27: a move inside one column puts the card at toItem - 1 when fromItem <
\* toItem and at toItem otherwise, clamped into [0, n - 1], and keeps the order
\* of the other items; a move to its own place or to the place behind it
\* changes nothing
C27_CardMovedInColumn ==
  [][\A c \in ColumnArgs, fromItem \in ItemArgs, toItem \in ItemArgs :
       (/\ HasColumn(board, c)
        /\ fromItem >= 0 /\ fromItem < Len(board[c + 1].items)
        /\ MoveCard(c, fromItem, c, toItem))
       => CardMovedInColumn(board, board', c, fromItem, toItem)]_vars

\* a card changed its place inside a column of two cards
C27_Witness ==
  /\ lastOp.op = "moveCard"
  /\ \E c \in 1..Len(board) :
       /\ Len(board[c].items) = 2
       /\ board[c].items[1] # board[c].items[2]
       /\ lastOp.start[c].items = <<board[c].items[2], board[c].items[1]>>

---------------------------------------------------------------------------
(* Merging the board a block was parsed to.                                *)

\* C28: when the board handed to updateBoard is the board the block was parsed
\* to, and the block has own-line `columns:` and `items:` headers in that order,
\* mergeKanbanBlockLines returns the lines of the block as they are and
\* updateBlockSource leaves the document as it is
C28_UneditedMergeIsIdentity ==
  (epc = "updated" /\ edited.columns = rendered /\ ~HeadersUnusable(blockLines)) =>
    /\ newLines = blockLines
    /\ written = doc

---------------------------------------------------------------------------
(* parse -> moveCard / moveColumn -> mergeKanbanBlockLines -> parse.       *)

MaxTripDeclarations == 2
MaxTripEntries == 2

\* column declarations with a limit and with a colour
TripDeclarationPool ==
  {<<" ", " ", "-", " ", "T", "o", "d", "o", " ", "(", "2", ")">>, <<" ", " ", "-", " ", "D", "o", "n", "e", " ", "{", "#", "0", "F", "0", "}">>, <<" ", " ", "-", " ", "T", "o", "d", "o">>, <<" ", " ", "-", " ", "T", "o", "]", "d", "o">>}

\* items in both notations, an item of an undeclared column, and a line that
\* continues the item above it
TripEntryPool ==
  {<<" ", " ", "-", " ", "[", "T", "o", "d", "o", "]", " ", "x">>, <<" ", " ", "-", " ", "D", "o", "n", "e", ":", " ", "y">>, <<" ", " ", " ", " ", "m", "o", "r", "e">>}

TripSources ==
  {JoinLines(<<ColumnsWord>> \o ds \o <<ItemsWord>> \o es) :
     ds \in LineSeqs(TripDeclarationPool, MaxTripDeclarations),
     es \in LineSeqs(TripEntryPool, MaxTripEntries)}

\* the indices the moves are called with
TripColumns == 0..MaxTripDeclarations
TripItems   == 0..MaxTripEntries

InitTrip ==
  /\ source \in TripSources
  /\ ppc = "start"
  /\ parsed = <<>> /\ serialized = <<>> /\ reparsed = <<>> /\ scan = Idle
  /\ IdleMove /\ IdlePayload /\ IdleEdit /\ IdleQueue

\* moveCard on the board parsed from the source
TripMoveCard(fromColumnIndex, fromItemIndex, toColumnIndex, toItemIndex) ==
  /\ ppc = "parsed"
  /\ parsed' = moveCard(parsed, fromColumnIndex, fromItemIndex, toColumnIndex, toItemIndex)
  /\ UNCHANGED <<source, ppc, serialized, reparsed, scan,
                 moveVars, payloadVars, editVars, queueVars>>

\* moveColumn on the board parsed from the source
TripMoveColumn(fromIndex, toIndex) ==
  /\ ppc = "parsed"
  /\ parsed' = moveColumn(parsed, fromIndex, toIndex)
  /\ UNCHANGED <<source, ppc, serialized, reparsed, scan,
                 moveVars, payloadVars, editVars, queueVars>>

\* mergeKanbanBlockLines(lines of the source, board), joined as updateBlockSource
\* joins the lines it writes
TripMerge ==
  /\ ppc = "parsed"
  /\ serialized' = JoinLines(mergeKanbanBlockLines(SplitLines(source), parsed))
  /\ ppc' = "serialized"
  /\ UNCHANGED <<source, parsed, reparsed, scan,
                 moveVars, payloadVars, editVars, queueVars>>

NextTrip ==
  \/ Parse
  \/ \E fc \in TripColumns, fi \in TripItems, tc \in TripColumns, ti \in TripItems :
       TripMoveCard(fc, fi, tc, ti)
  \/ \E from \in TripColumns, to \in TripColumns : TripMoveColumn(from, to)
  \/ TripMerge
  \/ Reparse

SpecTrip == InitTrip /\ [][NextTrip]_vars

\* C29: for every board obtained from parseKanbanSource(s) by moveCard and
\* moveColumn calls, parsing the lines mergeKanbanBlockLines returns for it gives a
\* board with the same columns in the same order, the same WIP limit and colour
\* per column and the same items per column, multi-line items included
C29_WriteThenReadGivesBoard ==
  ppc \in {"reparsed", "rethrew"} =>
    /\ ppc = "reparsed"
    /\ BoardContent(reparsed) = BoardContent(parsed)

---------------------------------------------------------------------------
(* Two updaters writing one file.                                          *)

\* the file holds what the edit submitted as the e-th wrote
InFile(contents, e) == \E i \in 1..Len(contents) : contents[i] = e

\* C30: no update is lost between the updaters of one document: whatever the
\* interleaving of their vault reads and writes, no step takes out of the file
\* what an edit has written into it, so that the final document holds the result
\* of every edit that was written
C30_NoUpdateLost ==
  [][\A e \in 1..MaxEdits : InFile(file, e) => InFile(file', e)]_vars
===========================================================================
